---- MODULE Spec2Model ----
\* Kernel configuration document model of vmlinux-builder (config.ts):
\* KernelConfigParser.parse / serialize and the category extractors,
\* KernelConfigSerializer.toJSON / toTOML / toObject / toMakefile / toDiff,
\* KernelConfigDeserializer.deserialize / fromJSON / fromTOML / fromObject
\* and parseKernelConfigFile; and the build script (build.ts) as the
\* sequence of commands it runs.
\*
\* Text is modelled at character level: a string is a sequence of
\* one-character strings, so that trimming, prefix tests, the regular
\* expressions of the parser and the formatting of the serializer are
\* computed the way the code computes them.
EXTENDS Integers, Sequences, FiniteSets, TLC

\* ------------------------------------------------------------------------
\* Bounds of the model
\* ------------------------------------------------------------------------

\* number of lines of an input text
MaxLines == 3

\* length of a raw literal after KEY= in the classification specification
MaxRawLen == 3

\* number of keys of each flatConfig given to toDiff
MaxDiffKeys == 2

\* number of keys of the flatConfig of a Document given to the serializers
MaxFlatKeys == 2

\* number of keys of the flatConfig of a Document given to the extractors
MaxExtractKeys == 1

\* ------------------------------------------------------------------------
\* Characters and character classes
\* ------------------------------------------------------------------------

NL == "\n"

Quote == "\""

\* \d
Digit == {"0", "1", "2", "3", "4", "5", "6", "7", "8", "9"}

\* [0-9a-fA-F]
HexDigit ==
    Digit \cup {"a", "b", "c", "d", "e", "f", "A", "B", "C", "D", "E", "F"}

Letter ==
    {"a", "b", "c", "d", "e", "f", "g", "h", "i", "j", "k", "l", "m",
     "n", "o", "p", "q", "r", "s", "t", "u", "v", "w", "x", "y", "z",
     "A", "B", "C", "D", "E", "F", "G", "H", "I", "J", "K", "L", "M",
     "N", "O", "P", "Q", "R", "S", "T", "U", "V", "W", "X", "Y", "Z"}

\* \w
WordChar == Letter \cup Digit \cup {"_"}

\* \s and the characters String.prototype.trim removes (a line never holds
\* a line feed: lines come from split("\n"))
WhiteSpace == {" ", "\t"}

\* ------------------------------------------------------------------------
\* String literals of the source
\* ------------------------------------------------------------------------

ConfigPrefix ==
    <<"C", "O", "N", "F", "I", "G", "_">>

EndOfPrefix ==
    <<"e", "n", "d", " ", "o", "f">>

IsNotSetText ==
    <<"i", "s", " ", "n", "o", "t", " ", "s", "e", "t">>

HeaderLine ==
    <<"#", " ", "A", "u", "t", "o", "m", "a", "t", "i", "c", "a", "l", "l",
      "y", " ", "g", "e", "n", "e", "r", "a", "t", "e", "d", " ", "f", "i",
      "l", "e", ";", " ", "D", "O", " ", "N", "O", "T", " ", "E", "D", "I",
      "T", ".">>

KernelConfigurationLine ==
    <<"#", " ", "L", "i", "n", "u", "x", " ", "K", "e", "r", "n", "e", "l",
      " ", "C", "o", "n", "f", "i", "g", "u", "r", "a", "t", "i", "o", "n">>

EndOfBannerPrefix ==
    <<"#", " ", "e", "n", "d", " ", "o", "f", " ">>

IsNotSetSuffix ==
    <<" ", "i", "s", " ", "n", "o", "t", " ", "s", "e", "t">>

CommentSeparator ==
    <<" ", " ", "#", " ">>

CONFIG_CC_VERSION_TEXT ==
    <<"C", "O", "N", "F", "I", "G", "_", "C", "C", "_", "V", "E", "R", "S",
      "I", "O", "N", "_", "T", "E", "X", "T">>

CONFIG_GCC_VERSION ==
    <<"C", "O", "N", "F", "I", "G", "_", "G", "C", "C", "_", "V", "E", "R",
      "S", "I", "O", "N">>

CONFIG_BUILD_SALT ==
    <<"C", "O", "N", "F", "I", "G", "_", "B", "U", "I", "L", "D", "_", "S",
      "A", "L", "T">>

\* ------------------------------------------------------------------------
\* String operations of the JavaScript runtime used by the parser
\* ------------------------------------------------------------------------

RECURSIVE trimStart(_)
trimStart(s) ==
    IF s # <<>> /\ Head(s) \in WhiteSpace THEN trimStart(Tail(s)) ELSE s

RECURSIVE trimEnd(_)
trimEnd(s) ==
    IF s # <<>> /\ s[Len(s)] \in WhiteSpace
    THEN trimEnd(SubSeq(s, 1, Len(s) - 1))
    ELSE s

trim(s) == trimEnd(trimStart(s))

startsWith(s, p) ==
    Len(s) >= Len(p) /\ SubSeq(s, 1, Len(p)) = p

includes(s, p) ==
    \E k \in 0..(Len(s) - Len(p)) : SubSeq(s, k + 1, k + Len(p)) = p

\* position of the first line feed of s, 0 when there is none
IndexOfNL(s) ==
    IF \E k \in 1..Len(s) : s[k] = NL
    THEN CHOOSE k \in 1..Len(s) : s[k] = NL /\ \A j \in 1..(k - 1) : s[j] # NL
    ELSE 0

\* content.split("\n")
RECURSIVE split(_)
split(s) ==
    LET k == IndexOfNL(s) IN
    IF k = 0
    THEN <<s>>
    ELSE <<SubSeq(s, 1, k - 1)>> \o split(SubSeq(s, k + 1, Len(s)))

\* lines.join("\n")
RECURSIVE join(_)
join(ls) ==
    IF ls = <<>> THEN <<>>
    ELSE IF Len(ls) = 1 THEN ls[1]
    ELSE ls[1] \o <<NL>> \o join(Tail(ls))

\* the longest prefix of s made of characters of class
RECURSIVE TakeWhile(_, _)
TakeWhile(s, class) ==
    IF s # <<>> /\ Head(s) \in class
    THEN <<Head(s)>> \o TakeWhile(Tail(s), class)
    ELSE <<>>

Drop(s, n) == SubSeq(s, n + 1, Len(s))

\* ------------------------------------------------------------------------
\* ConfigValue: a string (the markers y, m, n are the strings "y", "m",
\* "n"), a number, a boolean, or undefined
\* ------------------------------------------------------------------------

Str(s) == [t |-> "string", s |-> s, n |-> 0]

Num(n) == [t |-> "number", s |-> <<>>, n |-> n]

Undefined == [t |-> "undefined", s |-> <<>>, n |-> 0]

Bool(b) == [t |-> "boolean", s |-> <<>>, n |-> IF b THEN 1 ELSE 0]

\* a nested object (a table of the TOML dialect) held as a property value
Table(members) == [t |-> "object", s |-> members, n |-> 0]

\* a call returns a value
Returned(value) == [raised |-> FALSE, value |-> value]

\* a call throws an Error
Raised == [raised |-> TRUE, value |-> <<>>]

\* JavaScript truthiness: undefined, false, 0 and "" are falsy
Truthy(v) ==
    CASE v.t = "undefined" -> FALSE
      [] v.t = "number" -> v.n # 0
      [] v.t = "string" -> v.s # <<>>
      [] v.t = "boolean" -> v.n = 1
      [] v.t = "object" -> TRUE

DigitValue(c) ==
    CASE c = "0" -> 0 [] c = "1" -> 1 [] c = "2" -> 2 [] c = "3" -> 3
      [] c = "4" -> 4 [] c = "5" -> 5 [] c = "6" -> 6 [] c = "7" -> 7
      [] c = "8" -> 8 [] c = "9" -> 9
      [] c \in {"a", "A"} -> 10 [] c \in {"b", "B"} -> 11
      [] c \in {"c", "C"} -> 12 [] c \in {"d", "D"} -> 13
      [] c \in {"e", "E"} -> 14 [] c \in {"f", "F"} -> 15

RadixDigits(radix) == IF radix = 16 THEN HexDigit ELSE Digit

\* the value of a run of digits, most significant first
RECURSIVE DigitsValue(_, _, _)
DigitsValue(ds, radix, acc) ==
    IF ds = <<>> THEN acc
    ELSE DigitsValue(Tail(ds), radix, acc * radix + DigitValue(Head(ds)))

\* parseInt(s, radix) on a string with at least one digit: an optional sign,
\* for radix 16 an optional 0x prefix, then the longest run of digits
parseInt(s, radix) ==
    LET neg == s # <<>> /\ Head(s) = "-"
        u == IF neg THEN Tail(s) ELSE s
        b == IF radix = 16 /\ Len(u) >= 2 /\ u[1] = "0" /\ u[2] \in {"x", "X"}
             THEN Drop(u, 2) ELSE u
        mag == DigitsValue(TakeWhile(b, RadixDigits(radix)), radix, 0)
    IN  IF neg THEN 0 - mag ELSE mag

DigitChar(d) ==
    CASE d = 0 -> "0" [] d = 1 -> "1" [] d = 2 -> "2" [] d = 3 -> "3"
      [] d = 4 -> "4" [] d = 5 -> "5" [] d = 6 -> "6" [] d = 7 -> "7"
      [] d = 8 -> "8" [] d = 9 -> "9"

RECURSIVE NatToString(_)
NatToString(n) ==
    IF n < 10 THEN <<DigitChar(n)>>
    ELSE NatToString(n \div 10) \o <<DigitChar(n % 10)>>

\* String(n) for an integer
NumberToString(n) ==
    IF n < 0 THEN <<"-">> \o NatToString(0 - n) ELSE NatToString(n)

\* a value inside a template literal
TemplateString(v) ==
    CASE v.t = "string" -> v.s
      [] v.t = "number" -> NumberToString(v.n)
      [] v.t = "undefined" ->
            <<"u", "n", "d", "e", "f", "i", "n", "e", "d">>
      [] v.t = "boolean" ->
            IF v.n = 1 THEN <<"t", "r", "u", "e">>
            ELSE <<"f", "a", "l", "s", "e">>

\* ------------------------------------------------------------------------
\* The regular expressions of parse
\* ------------------------------------------------------------------------

NoMatch == [ok |-> FALSE, g1 |-> <<>>, g2 |-> <<>>]

Match(a, b) == [ok |-> TRUE, g1 |-> a, g2 |-> b]

\* trimmed.match(/^#\s*(.+)$/)
sectionMatch(trimmed) ==
    IF trimmed = <<>> \/ Head(trimmed) # "#" THEN NoMatch
    ELSE LET after == Tail(trimmed)
             rest == trimStart(after)
         IN  IF rest # <<>> THEN Match(rest, <<>>)
             ELSE IF after # <<>> THEN Match(<<after[Len(after)]>>, <<>>)
             ELSE NoMatch

\* trimmed.match(/^#\s*(CONFIG_\w+)\s+is not set/)
disabledMatch(trimmed) ==
    IF trimmed = <<>> \/ Head(trimmed) # "#" THEN NoMatch
    ELSE LET a == trimStart(Tail(trimmed)) IN
         IF ~startsWith(a, ConfigPrefix) THEN NoMatch
         ELSE LET b == Drop(a, Len(ConfigPrefix))
                  w == TakeWhile(b, WordChar)
                  c == Drop(b, Len(w))
                  d == trimStart(c)
              IN  IF w # <<>> /\ Len(d) < Len(c) /\ startsWith(d, IsNotSetText)
                  THEN Match(ConfigPrefix \o w, <<>>)
                  ELSE NoMatch

\* the pattern (CONFIG_\w+)=(.+)$ applied at the start of s
EnabledPatternAt(s) ==
    IF ~startsWith(s, ConfigPrefix) THEN NoMatch
    ELSE LET b == Drop(s, Len(ConfigPrefix))
             w == TakeWhile(b, WordChar)
             c == Drop(b, Len(w))
         IN  IF w # <<>> /\ Len(c) >= 2 /\ Head(c) = "="
             THEN Match(ConfigPrefix \o w, Tail(c))
             ELSE NoMatch

\* the same pattern without its ^ anchor: the leftmost match anywhere
enabledMatchUnanchored(trimmed) ==
    IF \E k \in 0..Len(trimmed) : EnabledPatternAt(Drop(trimmed, k)).ok
    THEN EnabledPatternAt(Drop(trimmed,
            CHOOSE k \in 0..Len(trimmed) :
                /\ EnabledPatternAt(Drop(trimmed, k)).ok
                /\ \A j \in 0..(k - 1) : ~EnabledPatternAt(Drop(trimmed, j)).ok))
    ELSE NoMatch

\* trimmed.match(/^(CONFIG_\w+)=(.+)$/)
enabledMatch(trimmed) == EnabledPatternAt(trimmed)

\* rawValue.match(/^-?\d+$/)
IsDecimalLiteral(raw) ==
    LET d == IF raw # <<>> /\ Head(raw) = "-" THEN Tail(raw) ELSE raw IN
    d # <<>> /\ \A k \in 1..Len(d) : d[k] \in Digit

\* rawValue.match(/^0x[0-9a-fA-F]+$/)
IsHexLiteral(raw) ==
    /\ Len(raw) >= 3
    /\ raw[1] = "0"
    /\ raw[2] = "x"
    /\ \A k \in 3..Len(raw) : raw[k] \in HexDigit

\* rawValue.replace(/^"(.*)"$/, "$1")
StripQuotes(raw) ==
    IF Len(raw) >= 2 /\ raw[1] = Quote /\ raw[Len(raw)] = Quote
    THEN SubSeq(raw, 2, Len(raw) - 1)
    ELSE raw

\* the value typing without its hexadecimal rule
classifyWithoutHex(rawValue) ==
    IF rawValue = <<"y">> THEN Str(<<"y">>)
    ELSE IF rawValue = <<"m">> THEN Str(<<"m">>)
    ELSE IF rawValue = <<"n">> THEN Str(<<"n">>)
    ELSE IF IsDecimalLiteral(rawValue) THEN Num(parseInt(rawValue, 10))
    ELSE Str(StripQuotes(rawValue))

\* the value typing of an enabled option
classify(rawValue) ==
    IF rawValue = <<"y">> THEN Str(<<"y">>)
    ELSE IF rawValue = <<"m">> THEN Str(<<"m">>)
    ELSE IF rawValue = <<"n">> THEN Str(<<"n">>)
    ELSE IF IsDecimalLiteral(rawValue) THEN Num(parseInt(rawValue, 10))
    ELSE IF IsHexLiteral(rawValue) THEN Num(parseInt(rawValue, 16))
    ELSE Str(StripQuotes(rawValue))

\* ------------------------------------------------------------------------
\* flatConfig: a JavaScript object with string keys, kept as the sequence of
\* its properties in insertion order; a property whose value is undefined
\* is still a property
\* ------------------------------------------------------------------------

Keys(fc) == [k \in 1..Len(fc) |-> fc[k].key]

HasKey(fc, key) == \E k \in 1..Len(fc) : fc[k].key = key

\* fc[key]
Get(fc, key) ==
    IF HasKey(fc, key)
    THEN fc[CHOOSE k \in 1..Len(fc) : fc[k].key = key].value
    ELSE Undefined

\* fc[key] = value
Put(fc, key, value) ==
    IF HasKey(fc, key)
    THEN [k \in 1..Len(fc) |->
            IF fc[k].key = key THEN [key |-> key, value |-> value] ELSE fc[k]]
    ELSE Append(fc, [key |-> key, value |-> value])

\* ------------------------------------------------------------------------
\* The scan of parse.  ConfigSection objects live in a heap (a sequence, a
\* section's reference is its index, 0 is undefined); sections,
\* currentSection and sectionStack hold references.
\* ------------------------------------------------------------------------

NoSection == 0

InitialScan ==
    [flatConfig |-> <<>>, heap |-> <<>>, sections |-> <<>>,
     currentSection |-> NoSection, sectionStack |-> <<>>]

\* sectionName === "end of"
IsSectionEndExact(sectionName) == sectionName = EndOfPrefix

\* sectionName.startsWith("end of")

IsSectionEnd(sectionName) == startsWith(sectionName, EndOfPrefix)

\* "# end of ...": pop the stack into currentSection when it is non-empty
SectionEnd(st) ==
    IF Len(st.sectionStack) > 0
    THEN [st EXCEPT
            !.currentSection = st.sectionStack[Len(st.sectionStack)],
            !.sectionStack = SubSeq(@, 1, Len(@) - 1)]
    ELSE st

NewSectionWithoutPush(st, sectionName) ==
    LET newSection ==
            [name |-> sectionName, entries |-> <<>>, subsections |-> <<>>]
        ref == Len(st.heap) + 1
        cur == st.currentSection
    IN  IF cur # NoSection
        THEN [st EXCEPT
                !.heap = Append([@ EXCEPT ![cur].subsections = Append(@, ref)],
                                newSection),
                !.currentSection = ref]
        ELSE [st EXCEPT
                !.heap = Append(@, newSection),
                !.sections = Append(@, ref),
                !.currentSection = ref]

\* any other "# name" line without CONFIG_: create a section
NewSection(st, sectionName) ==
    LET newSection ==
            [name |-> sectionName, entries |-> <<>>, subsections |-> <<>>]
        ref == Len(st.heap) + 1
        cur == st.currentSection
    IN  IF cur # NoSection
        THEN [st EXCEPT
                !.heap = Append([@ EXCEPT ![cur].subsections = Append(@, ref)],
                                newSection),
                !.sectionStack = Append(@, cur),
                !.currentSection = ref]
        ELSE [st EXCEPT
                !.heap = Append(@, newSection),
                !.sections = Append(@, ref),
                !.currentSection = ref]

\* currentSection.entries.push(entry) when there is a current section
PushEntry(st, entry) ==
    IF st.currentSection # NoSection
    THEN [st EXCEPT !.heap[st.currentSection].entries = Append(@, entry)]
    ELSE st

\* delete flatConfig[key]
DisabledFlatDelete(fc, key) == SelectSeq(fc, LAMBDA p : p.key # key)

\* flatConfig[key] = undefined
DisabledFlat(fc, key) == Put(fc, key, Undefined)

\* "# CONFIG_* is not set"
DisabledOption(st, key) ==
    LET entry == [key |-> key, value |-> Undefined,
                  comment |-> Str(IsNotSetText)]
    IN  PushEntry([st EXCEPT !.flatConfig = DisabledFlat(@, key)], entry)

\* "CONFIG_*=value"
EnabledOption(st, key, rawValue) ==
    LET value == classify(rawValue)
        entry == [key |-> key, value |-> value, comment |-> Undefined]
    IN  PushEntry([st EXCEPT !.flatConfig = Put(@, key, value)], entry)

LineKindAnyComment(trimmed) ==
    IF trimmed = <<>> THEN "blank"
    ELSE IF startsWith(trimmed, <<"#">>)
    THEN IF sectionMatch(trimmed).ok
         THEN IF IsSectionEnd(sectionMatch(trimmed).g1)
              THEN "sectionEnd" ELSE "newSection"
         ELSE "comment"
    ELSE IF disabledMatch(trimmed).ok THEN "disabled"
    ELSE IF enabledMatch(trimmed).ok THEN "enabled"
    ELSE "ignored"

\* which branch of the loop body a trimmed line takes
LineKind(trimmed) ==
    IF trimmed = <<>> THEN "blank"
    ELSE IF startsWith(trimmed, <<"#">>) /\ ~includes(trimmed, ConfigPrefix)
    THEN IF sectionMatch(trimmed).ok
         THEN IF IsSectionEnd(sectionMatch(trimmed).g1)
              THEN "sectionEnd" ELSE "newSection"
         ELSE "comment"
    ELSE IF disabledMatch(trimmed).ok THEN "disabled"
    ELSE IF enabledMatch(trimmed).ok THEN "enabled"
    ELSE "ignored"

\* one iteration of the loop over the lines
ProcessLine(st, line) ==
    LET trimmed == trim(line)
        kind == LineKind(trimmed)
    IN  CASE kind = "sectionEnd" -> SectionEnd(st)
          [] kind = "newSection" -> NewSection(st, sectionMatch(trimmed).g1)
          [] kind = "disabled" -> DisabledOption(st, disabledMatch(trimmed).g1)
          [] kind = "enabled" ->
                EnabledOption(st, enabledMatch(trimmed).g1,
                              enabledMatch(trimmed).g2)
          [] OTHER -> st

RECURSIVE ScanLines(_, _)
ScanLines(st, ls) ==
    IF ls = <<>> THEN st ELSE ScanLines(ProcessLine(st, Head(ls)), Tail(ls))

\* the section tree below a reference, as a value
RECURSIVE SectionTree(_, _)
SectionTree(heap, ref) ==
    [name |-> heap[ref].name,
     entries |-> heap[ref].entries,
     subsections |->
        [k \in 1..Len(heap[ref].subsections) |->
            SectionTree(heap, heap[ref].subsections[k])]]

\* buildInfo of a parsed flatConfig
BuildInfo(fc) ==
    [compiler |-> Get(fc, CONFIG_CC_VERSION_TEXT),
     gccVersion |->
        IF Truthy(Get(fc, CONFIG_GCC_VERSION))
        THEN Str(TemplateString(Get(fc, CONFIG_GCC_VERSION)))
        ELSE Undefined,
     buildSalt |-> Get(fc, CONFIG_BUILD_SALT)]

\* the Document returned at the end of the scan
MakeDocument(st) ==
    [buildInfo |-> BuildInfo(st.flatConfig),
     sections |->
        [k \in 1..Len(st.sections) |-> SectionTree(st.heap, st.sections[k])],
     flatConfig |-> st.flatConfig]

\* KernelConfigParser.parse
parse(text) == MakeDocument(ScanLines(InitialScan, split(text)))

NoBuildInfo ==
    [compiler |-> Undefined, gccVersion |-> Undefined, buildSalt |-> Undefined]

\* { sections: [], flatConfig: {} }
EmptyDocument ==
    [buildInfo |-> NoBuildInfo, sections |-> <<>>, flatConfig |-> <<>>]

\* ------------------------------------------------------------------------
\* KernelConfigParser.serialize
\* ------------------------------------------------------------------------

DefaultSerializeOptions ==
    [preserveSections |-> TRUE, includeComments |-> TRUE, sortKeys |-> FALSE,
     addHeader |-> TRUE, formatStyle |-> "kernel"]

\* the printable ASCII characters of codes 32 to 91, in code order
AsciiLow ==
    <<" ", "!", "\"", "#", "$", "%", "&", "'", "(", ")", "*", "+", ",", "-",
      ".", "/", "0", "1", "2", "3", "4", "5", "6", "7", "8", "9", ":", ";",
      "<", "=", ">", "?", "@", "A", "B", "C", "D", "E", "F", "G", "H", "I",
      "J", "K", "L", "M", "N", "O", "P", "Q", "R", "S", "T", "U", "V", "W",
      "X", "Y", "Z", "[">>

\* the printable ASCII characters of codes 97 to 126, in code order
AsciiHigh ==
    <<"a", "b", "c", "d", "e", "f", "g", "h", "i", "j", "k", "l", "m", "n",
      "o", "p", "q", "r", "s", "t", "u", "v", "w", "x", "y", "z", "{", "|",
      "}", "~">>

\* the code unit of a character (the backslash, code 92, and the grave
\* accent, code 96, do not occur)
CharCode(c) ==
    IF c = "\t" THEN 9
    ELSE IF c = NL THEN 10
    ELSE IF c = "]" THEN 93
    ELSE IF c = "^" THEN 94
    ELSE IF c = "_" THEN 95
    ELSE IF \E k \in 1..Len(AsciiLow) : AsciiLow[k] = c
    THEN 31 + (CHOOSE k \in 1..Len(AsciiLow) : AsciiLow[k] = c)
    ELSE 96 + (CHOOSE k \in 1..Len(AsciiHigh) : AsciiHigh[k] = c)

\* a < b in the code unit order Array.prototype.sort uses for strings
RECURSIVE StringLess(_, _)
StringLess(a, b) ==
    IF b = <<>> THEN FALSE
    ELSE IF a = <<>> THEN TRUE
    ELSE IF Head(a) = Head(b) THEN StringLess(Tail(a), Tail(b))
    ELSE CharCode(Head(a)) < CharCode(Head(b))

\* insert key into the sorted sequence ks
RECURSIVE SortedInsert(_, _)
SortedInsert(ks, key) ==
    IF ks = <<>> THEN <<key>>
    ELSE IF StringLess(key, Head(ks)) THEN <<key>> \o ks
    ELSE <<Head(ks)>> \o SortedInsert(Tail(ks), key)

\* Object.keys(flatConfig).sort()
RECURSIVE SortKeys(_)
SortKeys(ks) ==
    IF ks = <<>> THEN <<>>
    ELSE SortedInsert(SortKeys(SubSeq(ks, 1, Len(ks) - 1)), ks[Len(ks)])

IsMarker(value) ==
    value.t = "string" /\ value.s \in {<<"y">>, <<"m">>, <<"n">>}

\* serializeEntry: push the line of an entry (no branch pushes a line for
\* the boolean true), then append its comment to the last line
serializeEntry(out, entry, opts) ==
    LET key == entry.key
        value == entry.value
        needsQuotes ==
            \/ includes(value.s, <<" ">>)
            \/ includes(value.s, <<"#">>)
            \/ includes(value.s, <<"=">>)
            \/ opts.formatStyle = "quoted"
        formatted ==
            IF needsQuotes THEN <<Quote>> \o value.s \o <<Quote>> ELSE value.s
        pushed ==
            IF ~Truthy(value)
            THEN Append(out, <<"#", " ">> \o key \o IsNotSetSuffix)
            ELSE IF IsMarker(value)
            THEN Append(out, key \o <<"=">> \o value.s)
            ELSE IF value.t = "number"
            THEN Append(out, key \o <<"=">> \o NumberToString(value.n))
            ELSE IF value.t = "string"
            THEN Append(out, key \o <<"=">> \o formatted)
            ELSE out
    IN  IF Truthy(entry.comment) /\ opts.includeComments /\ pushed # <<>>
        THEN [pushed EXCEPT ![Len(pushed)] =
                @ \o CommentSeparator \o entry.comment.s]
        ELSE pushed

RECURSIVE serializeEntries(_, _, _)
serializeEntries(out, entries, opts) ==
    IF entries = <<>> THEN out
    ELSE serializeEntries(serializeEntry(out, Head(entries), opts),
                          Tail(entries), opts)

\* serializeSections: banner, entries, subsections, footer of each section
RECURSIVE serializeSections(_, _, _)
serializeSections(out, secs, opts) ==
    IF secs = <<>> THEN out
    ELSE LET section == Head(secs)
             a == IF opts.includeComments
                  THEN out \o <<<<>>, <<"#">>, <<"#", " ">> \o section.name,
                                <<"#">>>>
                  ELSE out
             b == serializeEntries(a, section.entries, opts)
             c == IF Len(section.subsections) > 0
                  THEN serializeSections(b, section.subsections, opts)
                  ELSE b
             d == IF opts.includeComments
                  THEN Append(c, EndOfBannerPrefix \o section.name)
                  ELSE c
         IN  serializeSections(d, Tail(secs), opts)

serializeFlatConfigUnsorted(out, fc, opts) ==
    LET keys == Keys(fc)
        entries == [k \in 1..Len(keys) |->
                      [key |-> keys[k], value |-> Get(fc, keys[k]),
                       comment |-> Undefined]]
    IN  serializeEntries(out, entries, opts)

\* serializeFlatConfig: one entry per key of flatConfig
serializeFlatConfig(out, fc, opts) ==
    LET keys == IF opts.sortKeys THEN SortKeys(Keys(fc)) ELSE Keys(fc)
        entries == [k \in 1..Len(keys) |->
                      [key |-> keys[k], value |-> Get(fc, keys[k]),
                       comment |-> Undefined]]
    IN  serializeEntries(out, entries, opts)

\* the header lines
serializeHeader(config, opts) ==
    IF opts.addHeader
    THEN <<<<"#">>, HeaderLine>>
         \o (IF Truthy(config.buildInfo.compiler)
             THEN <<<<"#", " ">> \o TemplateString(config.buildInfo.compiler)>>
             ELSE <<>>)
         \o (IF Truthy(config.buildInfo.buildSalt)
             THEN <<KernelConfigurationLine>>
             ELSE <<>>)
         \o <<<<"#">>, <<>>>>
    ELSE <<>>

serialize(config, opts) ==
    LET header == serializeHeader(config, opts) IN
    IF opts.preserveSections /\ Len(config.sections) > 0
    THEN join(serializeSections(header, config.sections, opts))
    ELSE join(serializeFlatConfig(header, config.flatConfig, opts))

\* ------------------------------------------------------------------------
\* KernelConfigSerializer.toJSON / KernelConfigDeserializer.fromJSON.
\* JSON text is kept as the tree of values it denotes: an object is the
\* sequence of its members.  JSON.stringify omits every property whose
\* value is undefined.
\* ------------------------------------------------------------------------

Defined(members) == SelectSeq(members, LAMBDA p : p.value.t # "undefined")

\* the member of a JSON object, undefined when the object has none
Member(members, name) ==
    IF \E k \in 1..Len(members) : members[k].key = name
    THEN members[CHOOSE k \in 1..Len(members) : members[k].key = name].value
    ELSE Undefined

EntryToJSON(entry) ==
    Defined(<<[key |-> "key", value |-> Str(entry.key)],
              [key |-> "value", value |-> entry.value],
              [key |-> "comment", value |-> entry.comment]>>)

RECURSIVE SectionToJSON(_)
SectionToJSON(section) ==
    [name |-> section.name,
     entries |-> [k \in 1..Len(section.entries) |->
                     EntryToJSON(section.entries[k])],
     subsections |-> [k \in 1..Len(section.subsections) |->
                         SectionToJSON(section.subsections[k])]]

\* JSON.stringify(config, null, 2)
toJSON(config) ==
    [buildInfo |->
        Defined(<<[key |-> "compiler", value |-> config.buildInfo.compiler],
                  [key |-> "gccVersion", value |-> config.buildInfo.gccVersion],
                  [key |-> "buildSalt", value |-> config.buildInfo.buildSalt]>>),
     sections |-> [k \in 1..Len(config.sections) |->
                     SectionToJSON(config.sections[k])],
     flatConfig |-> Defined(config.flatConfig)]

EntryFromJSON(members) ==
    [key |-> Member(members, "key").s,
     value |-> Member(members, "value"),
     comment |-> Member(members, "comment")]

RECURSIVE SectionFromJSON(_)
SectionFromJSON(data) ==
    [name |-> data.name,
     entries |-> [k \in 1..Len(data.entries) |->
                     EntryFromJSON(data.entries[k])],
     subsections |-> [k \in 1..Len(data.subsections) |->
                         SectionFromJSON(data.subsections[k])]]

\* JSON.parse(json) as KernelConfig, of JSON text that toJSON produced
fromJSON(json) ==
    [buildInfo |->
        [compiler |-> Member(json.buildInfo, "compiler"),
         gccVersion |-> Member(json.buildInfo, "gccVersion"),
         buildSalt |-> Member(json.buildInfo, "buildSalt")],
     sections |-> [k \in 1..Len(json.sections) |->
                     SectionFromJSON(json.sections[k])],
     flatConfig |-> json.flatConfig]

\* ------------------------------------------------------------------------
\* KernelConfigSchema.parse: does the schema accept the value
\* ------------------------------------------------------------------------

\* ConfigValueSchema.optional()
IsOptionalConfigValue(v) ==
    v.t \in {"string", "number", "boolean", "undefined"}

\* z.string().optional()
IsOptionalString(v) == v.t \in {"string", "undefined"}

RECURSIVE ConfigSectionSchemaAccepts(_)
ConfigSectionSchemaAccepts(section) ==
    /\ \A k \in 1..Len(section.entries) :
          /\ IsOptionalConfigValue(section.entries[k].value)
          /\ IsOptionalString(section.entries[k].comment)
    /\ \A k \in 1..Len(section.subsections) :
          ConfigSectionSchemaAccepts(section.subsections[k])

KernelConfigSchemaAccepts(data) ==
    /\ IsOptionalString(data.buildInfo.compiler)
    /\ IsOptionalString(data.buildInfo.gccVersion)
    /\ IsOptionalString(data.buildInfo.buildSalt)
    /\ \A k \in 1..Len(data.sections) :
          ConfigSectionSchemaAccepts(data.sections[k])
    /\ \A k \in 1..Len(data.flatConfig) :
          IsOptionalConfigValue(data.flatConfig[k].value)

\* ------------------------------------------------------------------------
\* KernelConfigDeserializer.  The text given to fromJSON and fromTOML is
\* either malformed (JSON.parse, toml.parse throw) or well formed, and then
\* kept as the tree of values it denotes.
\* ------------------------------------------------------------------------

ParsableText(data) == [wellFormed |-> TRUE, data |-> data]

MalformedText == [wellFormed |-> FALSE, data |-> <<>>]

\* { strict: false, validate: false }
DefaultDeserializeOptions == [strict |-> FALSE, validate |-> FALSE]

\* the catch block of deserialize and of fromJSON
Catch(opts) == IF opts.strict THEN Raised ELSE Returned(EmptyDocument)

\* KernelConfigDeserializer.deserialize(content, options)
deserialize(text, opts) ==
    LET parsed == parse(text) IN
    IF opts.validate /\ ~KernelConfigSchemaAccepts(parsed)
    THEN Catch(opts)
    ELSE Returned(parsed)

\* parseKernelConfigFile(content): KernelConfigSchema.parse throws on a value
\* the schema rejects and returns the value otherwise
parseKernelConfigFile(text) ==
    LET parsed == parse(text) IN
    IF KernelConfigSchemaAccepts(parsed) THEN Returned(parsed) ELSE Raised

\* KernelConfigDeserializer.fromJSON(json, options)
fromJSONText(text, opts) ==
    IF ~text.wellFormed THEN Catch(opts)
    ELSE IF opts.validate /\ ~KernelConfigSchemaAccepts(fromJSON(text.data))
    THEN Catch(opts)
    ELSE Returned(fromJSON(text.data))

fromObjectEntryAnyKey(flat, key, value) ==
    IF value = Bool(TRUE) THEN Put(flat, key, Str(<<"y">>))
    ELSE IF value = Bool(FALSE) \/ value = Undefined
    THEN Put(flat, key, Undefined)
    ELSE IF IsMarker(value) THEN Put(flat, key, value)
    ELSE IF value.t \in {"number", "string"} THEN Put(flat, key, value)
    ELSE flat

\* the body of the loop of fromObject
fromObjectEntry(flat, key, value) ==
    IF startsWith(key, ConfigPrefix)
    THEN IF value = Bool(TRUE) THEN Put(flat, key, Str(<<"y">>))
         ELSE IF value = Bool(FALSE) \/ value = Undefined
         THEN Put(flat, key, Undefined)
         ELSE IF IsMarker(value) THEN Put(flat, key, value)
         ELSE IF value.t \in {"number", "string"} THEN Put(flat, key, value)
         ELSE flat
    ELSE flat

RECURSIVE fromObjectEntries(_, _)
fromObjectEntries(flat, entries) ==
    IF entries = <<>> THEN flat
    ELSE fromObjectEntries(
            fromObjectEntry(flat, Head(entries).key, Head(entries).value),
            Tail(entries))

\* KernelConfigDeserializer.fromObject(obj): obj is the sequence of its
\* properties
fromObject(obj) ==
    [buildInfo |-> NoBuildInfo, sections |-> <<>>,
     flatConfig |-> fromObjectEntries(<<>>, obj)]

\* KernelConfigSerializer.toTOML(config): the tables buildInfo and config
\* (TOML has no notation for an undefined value)
toTOML(config) ==
    [buildInfo |->
        Defined(<<[key |-> "compiler", value |-> config.buildInfo.compiler],
                  [key |-> "gccVersion", value |-> config.buildInfo.gccVersion],
                  [key |-> "buildSalt", value |-> config.buildInfo.buildSalt]>>),
     config |-> Defined(config.flatConfig)]

\* toml.parse(tomlString): an object with the properties buildInfo, config
tomlParse(data) ==
    <<[key |-> <<"b", "u", "i", "l", "d", "I", "n", "f", "o">>,
       value |-> Table(data.buildInfo)],
      [key |-> <<"c", "o", "n", "f", "i", "g">>,
       value |-> Table(data.config)]>>

\* KernelConfigDeserializer.fromTOML(tomlString)
fromTOML(text) ==
    IF ~text.wellFormed THEN Raised
    ELSE Returned(fromObject(tomlParse(text.data)))

toObjectValueKeepMarkers(value, booleanStyle) ==
    value

\* the body of the loop of toObject
toObjectValue(value, booleanStyle) ==
    IF booleanStyle
    THEN IF value = Str(<<"y">>) \/ value = Str(<<"m">>) THEN Bool(TRUE)
         ELSE IF value = Str(<<"n">>) \/ value = Undefined THEN Bool(FALSE)
         ELSE value
    ELSE value

\* KernelConfigSerializer.toObject(config, booleanStyle)
toObject(config, booleanStyle) ==
    [k \in 1..Len(config.flatConfig) |->
        [key |-> config.flatConfig[k].key,
         value |-> toObjectValue(config.flatConfig[k].value, booleanStyle)]]

\* ------------------------------------------------------------------------
\* KernelConfigSerializer.toMakefile
\* ------------------------------------------------------------------------

\* the value null, which toMakefile compares against
Null == [t |-> "null", s |-> <<>>, n |-> 0]

\* s.replace(p, ""): s without the first occurrence of p
removeFirst(s, p) ==
    IF ~includes(s, p)
    THEN s
    ELSE LET k == CHOOSE j \in 0..(Len(s) - Len(p)) :
                    /\ SubSeq(s, j + 1, j + Len(p)) = p
                    /\ \A h \in 0..(j - 1) : SubSeq(s, h + 1, h + Len(p)) # p
         IN  SubSeq(s, 1, k) \o SubSeq(s, k + Len(p) + 1, Len(s))

MakefileHeaderLine ==
    <<"#", " ", "K", "e", "r", "n", "e", "l", " ", "c", "o", "n", "f", "i", "g", "u", "r", "a", "t", "i", "o", "n", " ", "a", "s", " ", "M", "a", "k", "e", "f", "i", "l", "e", " ", "v", "a", "r", "i", "a", "b", "l", "e", "s">>

\* the body of the loop of toMakefile: the test is value === null, and
\* each of the four branches for another value pushes NAME := value
toMakefileEntry(out, key, value) ==
    IF value = Null
    THEN Append(out, <<"#", " ">> \o key \o IsNotSetSuffix)
    ELSE Append(out, removeFirst(key, ConfigPrefix) \o <<" ", ":", "=", " ">>
                        \o TemplateString(value))

RECURSIVE toMakefileEntries(_, _)
toMakefileEntries(out, fc) ==
    IF fc = <<>>
    THEN out
    ELSE toMakefileEntries(toMakefileEntry(out, Head(fc).key, Head(fc).value),
                           Tail(fc))

\* KernelConfigSerializer.toMakefile(config)
toMakefile(config) ==
    join(toMakefileEntries(<<MakefileHeaderLine, <<>>>>, config.flatConfig))

\* ------------------------------------------------------------------------
\* The category extractors.  The returned object is the sequence of its
\* fields; the field F is computed from flat.CONFIG_F.
\* ------------------------------------------------------------------------

IsBuiltInOrModule(flat, name) ==
    Get(flat, ConfigPrefix \o name) \in {Str(<<"y">>), Str(<<"m">>)}

\* flat.CONFIG_<name> === "y"
IsBuiltIn(flat, name) == Get(flat, ConfigPrefix \o name) = Str(<<"y">>)

\* a boolean field of an extractor
Flag(flat, name) == [key |-> name, value |-> Bool(IsBuiltIn(flat, name))]

extractProcessorConfig(config) ==
    LET flat == config.flatConfig IN
    <<Flag(flat, <<"S", "M", "P">>),
      [key |-> <<"N", "R", "_", "C", "P", "U", "S">>,
       value |-> Get(flat, ConfigPrefix \o <<"N", "R", "_", "C", "P", "U",
          "S">>)],
      Flag(flat, <<"X", "8", "6", "_", "6", "4">>),
      Flag(flat, <<"N", "U", "M", "A">>),
      Flag(flat, <<"P", "R", "E", "E", "M", "P", "T">>),
      Flag(flat, <<"P", "R", "E", "E", "M", "P", "T", "_", "V", "O", "L",
          "U", "N", "T", "A", "R", "Y">>),
      Flag(flat, <<"P", "R", "E", "E", "M", "P", "T", "_", "N", "O", "N",
          "E">>)>>

extractSecurityConfig(config) ==
    LET flat == config.flatConfig IN
    <<Flag(flat, <<"S", "E", "C", "U", "R", "I", "T", "Y">>),
      Flag(flat, <<"S", "E", "C", "U", "R", "I", "T", "Y", "_", "S", "E",
          "L", "I", "N", "U", "X">>),
      Flag(flat, <<"S", "E", "C", "U", "R", "I", "T", "Y", "_", "A", "P",
          "P", "A", "R", "M", "O", "R">>),
      Flag(flat, <<"S", "E", "C", "U", "R", "I", "T", "Y", "_", "S", "M",
          "A", "C", "K">>),
      Flag(flat, <<"S", "E", "C", "C", "O", "M", "P">>),
      Flag(flat, <<"S", "T", "A", "C", "K", "P", "R", "O", "T", "E", "C",
          "T", "O", "R">>),
      Flag(flat, <<"F", "O", "R", "T", "I", "F", "Y", "_", "S", "O", "U",
          "R", "C", "E">>)>>

extractNetworkingConfig(config) ==
    LET flat == config.flatConfig IN
    <<Flag(flat, <<"N", "E", "T">>),
      Flag(flat, <<"I", "N", "E", "T">>),
      Flag(flat, <<"I", "P", "V", "6">>),
      Flag(flat, <<"N", "E", "T", "F", "I", "L", "T", "E", "R">>),
      Flag(flat, <<"P", "A", "C", "K", "E", "T">>),
      Flag(flat, <<"U", "N", "I", "X">>)>>

extractFilesystemConfig(config) ==
    LET flat == config.flatConfig IN
    <<Flag(flat, <<"E", "X", "T", "4", "_", "F", "S">>),
      Flag(flat, <<"X", "F", "S", "_", "F", "S">>),
      Flag(flat, <<"B", "T", "R", "F", "S", "_", "F", "S">>),
      Flag(flat, <<"N", "F", "S", "_", "F", "S">>),
      Flag(flat, <<"T", "M", "P", "F", "S">>)>>

\* ------------------------------------------------------------------------
\* KernelConfigSerializer.toDiff
\* ------------------------------------------------------------------------

DiffHeaderLine ==
    <<"#", " ", "C", "o", "n", "f", "i", "g", "u", "r", "a", "t", "i", "o",
      "n", " ", "d", "i", "f", "f", "e", "r", "e", "n", "c", "e", "s">>

\* new Set([...Object.keys(old), ...Object.keys(new)]), in insertion order
allKeys(oldFlat, newFlat) ==
    Keys(oldFlat)
        \o SelectSeq(Keys(newFlat), LAMBDA key : ~HasKey(oldFlat, key))

diffKeyAddOnly(out, oldFlat, newFlat, key) ==
    LET oldValue == Get(oldFlat, key)
        newValue == Get(newFlat, key)
        minus == <<"-", " ">> \o key \o <<"=">> \o TemplateString(oldValue)
        plus == <<"+", " ">> \o key \o <<"=">> \o TemplateString(newValue)
    IN  IF oldValue # newValue
        THEN IF oldValue = Undefined THEN Append(out, plus)
             ELSE IF newValue = Undefined THEN Append(out, minus)
             ELSE Append(out, plus)
        ELSE out

\* the body of the loop over allKeys
diffKey(out, oldFlat, newFlat, key) ==
    LET oldValue == Get(oldFlat, key)
        newValue == Get(newFlat, key)
        minus == <<"-", " ">> \o key \o <<"=">> \o TemplateString(oldValue)
        plus == <<"+", " ">> \o key \o <<"=">> \o TemplateString(newValue)
    IN  IF oldValue # newValue
        THEN IF oldValue = Undefined THEN Append(out, plus)
             ELSE IF newValue = Undefined THEN Append(out, minus)
             ELSE Append(Append(out, minus), plus)
        ELSE out

RECURSIVE diffKeys(_, _, _, _)
diffKeys(out, oldFlat, newFlat, keys) ==
    IF keys = <<>> THEN out
    ELSE diffKeys(diffKey(out, oldFlat, newFlat, Head(keys)),
                  oldFlat, newFlat, Tail(keys))

toDiff(oldConfig, newConfig) ==
    join(diffKeys(<<DiffHeaderLine, <<>>>>,
                  oldConfig.flatConfig, newConfig.flatConfig,
                  allKeys(oldConfig.flatConfig, newConfig.flatConfig)))

\* ------------------------------------------------------------------------
\* Input texts
\* ------------------------------------------------------------------------

CONFIG_X ==
    <<"C", "O", "N", "F", "I", "G", "_", "X">>

GeneralSetup ==
    <<"G", "e", "n", "e", "r", "a", "l", " ", "s", "e", "t", "u", "p">>

LineHash ==
    <<"#">>

LineGeneralSetup ==
    <<"#", " ", "G", "e", "n", "e", "r", "a", "l", " ", "s", "e", "t", "u",
      "p">>

LineEndGeneralSetup ==
    <<"#", " ", "e", "n", "d", " ", "o", "f", " ", "G", "e", "n", "e", "r",
      "a", "l", " ", "s", "e", "t", "u", "p">>

LineSecurity ==
    <<"#", " ", "S", "e", "c", "u", "r", "i", "t", "y">>

LineXy ==
    <<"C", "O", "N", "F", "I", "G", "_", "X", "=", "y">>

LineX0 ==
    <<"C", "O", "N", "F", "I", "G", "_", "X", "=", "0">>

LineXNotSet ==
    <<"#", " ", "C", "O", "N", "F", "I", "G", "_", "X", " ", "i", "s", " ",
      "n", "o", "t", " ", "s", "e", "t">>

LineXCommented ==
    <<"#", " ", "C", "O", "N", "F", "I", "G", "_", "X", "=", "y">>

\* the first line of the malformed input of the tests
LineInvalid ==
    <<"I", "N", "V", "A", "L", "I", "D", " ", "L", "I", "N", "E">>

\* a line of white space only
LineBlank ==
    <<" ">>

\* the lines an input text is made of
InputLines ==
    {LineHash, LineGeneralSetup, LineEndGeneralSetup, LineSecurity,
     LineXy, LineX0, LineXNotSet, LineXCommented, LineInvalid, LineBlank}

\* the texts of at most MaxLines lines
InputTexts ==
    {join(ls) : ls \in UNION {[1..n -> InputLines] : n \in 0..MaxLines}}

\* the characters a raw literal is made of
RawAlphabet ==
    {"y", "m", "n", "0", "2", "A", "a", "x", "-", Quote, " "}

Lit0x2A ==
    <<"0", "x", "2", "A">>

Lit42 ==
    <<"4", "2">>

LitQuotedAB ==
    <<Quote, "a", " ", "b", Quote>>

\* the raw literals: every string of at most MaxRawLen characters of
\* RawAlphabet, and the literals of the documented examples
RawLiterals ==
    UNION {[1..n -> RawAlphabet] : n \in 1..MaxRawLen}
        \cup {Lit0x2A, Lit42, LitQuotedAB}

\* the option sets serialize is called with
OptionSets ==
    {DefaultSerializeOptions,
     [DefaultSerializeOptions EXCEPT !.addHeader = FALSE],
     [DefaultSerializeOptions EXCEPT !.addHeader = FALSE,
                                     !.includeComments = FALSE],
     [DefaultSerializeOptions EXCEPT !.preserveSections = FALSE,
                                     !.sortKeys = TRUE]}

\* ------------------------------------------------------------------------
\* State
\* ------------------------------------------------------------------------

VARIABLES
    content,         \* the text given to parse
    lines,           \* content.split("\n")
    i,               \* number of lines scanned
    pc,              \* position of the caller
    flatConfig,      \* parse: flatConfig
    heap,            \* parse: the ConfigSection objects created so far
    sections,        \* parse: references of the top-level sections
    currentSection,  \* parse: reference of the current section, or NoSection
    sectionStack,    \* parse: references of the open ancestors
    rawValue,        \* parse: the literal of the last enabled option
    config,          \* the Document parse returned
    options,         \* the options of the last toConfig call
    serialized,      \* toConfig(config, options)
    roundtrip,       \* deserialize(serialized)
    reserialized,    \* toConfig(roundtrip, options)
    json,            \* toJSON(config)
    decoded,         \* fromJSON(json)
    call,            \* the last call of the serializer / deserializer API
    result,          \* what that call returned or raised
    args,            \* build.ts: Deno.args
    step,            \* build.ts: position of the script
    exitCode,        \* build.ts: exit status of the script, Running before
    commands,        \* build.ts: the commands run so far, with their outcome
    files,           \* build.ts: the paths that exist
    vmlinux          \* build.ts: name of the renamed kernel image

scanVars == <<flatConfig, heap, sections, currentSection, sectionStack>>

postVars == <<options, serialized, roundtrip, reserialized, json, decoded>>

apiVars == <<call, result>>

buildVars == <<args, step, exitCode, commands, files, vmlinux>>

vars ==
    <<content, lines, i, pc, flatConfig, heap, sections, currentSection,
      sectionStack, rawValue, config, options, serialized, roundtrip,
      reserialized, json, decoded, call, result, args, step, exitCode,
      commands, files, vmlinux>>

\* the local state of the running parse call
Scan ==
    [flatConfig |-> flatConfig, heap |-> heap, sections |-> sections,
     currentSection |-> currentSection, sectionStack |-> sectionStack]

Store(st) ==
    /\ flatConfig' = st.flatConfig
    /\ heap' = st.heap
    /\ sections' = st.sections
    /\ currentSection' = st.currentSection
    /\ sectionStack' = st.sectionStack

\* no API call made yet
NoCall == [op |-> "none"]

NoResult == Returned(<<>>)

\* the exit status of a script that has not exited; <<code>> afterwards
Running == <<>>

\* build.ts is not running
NoBuild ==
    /\ args = <<>>
    /\ step = "start"
    /\ exitCode = Running
    /\ commands = <<>>
    /\ files = {}
    /\ vmlinux = <<>>

InitWith(texts) ==
    /\ content \in texts
    /\ lines = <<>>
    /\ i = 0
    /\ pc = "start"
    /\ flatConfig = <<>>
    /\ heap = <<>>
    /\ sections = <<>>
    /\ currentSection = NoSection
    /\ sectionStack = <<>>
    /\ rawValue = <<>>
    /\ config = EmptyDocument
    /\ options = DefaultSerializeOptions
    /\ serialized = <<>>
    /\ roundtrip = EmptyDocument
    /\ reserialized = <<>>
    /\ json = toJSON(EmptyDocument)
    /\ decoded = EmptyDocument
    /\ call = NoCall
    /\ result = NoResult
    /\ NoBuild

Init == InitWith(InputTexts)

\* ------------------------------------------------------------------------
\* parse, one action per branch of the loop body
\* ------------------------------------------------------------------------

\* const lines = content.split("\n") and the empty collections
ParseStart ==
    /\ pc = "start"
    /\ lines' = split(content)
    /\ i' = 0
    /\ Store(InitialScan)
    /\ pc' = "scan"
    /\ UNCHANGED <<content, rawValue, config>>
    /\ UNCHANGED postVars
    /\ UNCHANGED apiVars
    /\ UNCHANGED buildVars

\* the trimmed line the loop is about to handle
Trimmed == trim(lines[i + 1])

\* the loop takes its next line, which is of the given kind
NextLine(kind) ==
    /\ pc = "scan"
    /\ i < Len(lines)
    /\ LineKind(Trimmed) = kind
    /\ i' = i + 1
    /\ UNCHANGED <<content, lines, pc, config>>
    /\ UNCHANGED postVars
    /\ UNCHANGED apiVars
    /\ UNCHANGED buildVars

\* if (!trimmed) continue
BlankLine ==
    /\ NextLine("blank")
    /\ UNCHANGED scanVars
    /\ UNCHANGED rawValue

\* a comment line without CONFIG_ that sectionMatch does not match
CommentLine ==
    /\ NextLine("comment")
    /\ UNCHANGED scanVars
    /\ UNCHANGED rawValue

\* "# end of ..."
SectionEndLine ==
    /\ NextLine("sectionEnd")
    /\ Store(SectionEnd(Scan))
    /\ UNCHANGED rawValue

\* "# name"
NewSectionLine ==
    /\ NextLine("newSection")
    /\ Store(NewSection(Scan, sectionMatch(Trimmed).g1))
    /\ UNCHANGED rawValue

\* "# CONFIG_* is not set"
DisabledLine ==
    /\ NextLine("disabled")
    /\ Store(DisabledOption(Scan, disabledMatch(Trimmed).g1))
    /\ UNCHANGED rawValue

\* "CONFIG_*=value"
EnabledLine ==
    /\ NextLine("enabled")
    /\ rawValue' = enabledMatch(Trimmed).g2
    /\ Store(EnabledOption(Scan, enabledMatch(Trimmed).g1,
                           enabledMatch(Trimmed).g2))

\* a line no pattern matches
IgnoredLine ==
    /\ NextLine("ignored")
    /\ UNCHANGED scanVars
    /\ UNCHANGED rawValue

\* return { buildInfo, sections, flatConfig }
ParseReturn ==
    /\ pc = "scan"
    /\ i = Len(lines)
    /\ config' = MakeDocument(Scan)
    /\ pc' = "done"
    /\ UNCHANGED <<content, lines, i, rawValue>>
    /\ UNCHANGED scanVars
    /\ UNCHANGED postVars
    /\ UNCHANGED apiVars
    /\ UNCHANGED buildVars

Next ==
    \/ ParseStart
    \/ BlankLine
    \/ CommentLine
    \/ SectionEndLine
    \/ NewSectionLine
    \/ DisabledLine
    \/ EnabledLine
    \/ IgnoredLine
    \/ ParseReturn

Spec == Init /\ [][Next]_vars

\* ------------------------------------------------------------------------
\* Round trips of a parsed Document
\* ------------------------------------------------------------------------

\* KernelConfigSerializer.toConfig(config, opts)
ToConfig ==
    /\ pc = "done"
    /\ \E opts \in OptionSets :
          /\ options' = opts
          /\ serialized' = serialize(config, opts)
    /\ pc' = "serialized"
    /\ UNCHANGED <<content, lines, i, rawValue, config>>
    /\ UNCHANGED scanVars
    /\ UNCHANGED <<roundtrip, reserialized, json, decoded>>
    /\ UNCHANGED apiVars
    /\ UNCHANGED buildVars

\* KernelConfigDeserializer.deserialize(serialized)
Deserialize ==
    /\ pc = "serialized"
    /\ roundtrip' = parse(serialized)
    /\ pc' = "roundtrip"
    /\ UNCHANGED <<content, lines, i, rawValue, config>>
    /\ UNCHANGED scanVars
    /\ UNCHANGED <<options, serialized, reserialized, json, decoded>>
    /\ UNCHANGED apiVars
    /\ UNCHANGED buildVars

\* KernelConfigSerializer.toConfig(roundtrip, opts) with the same options
ToConfigAgain ==
    /\ pc = "roundtrip"
    /\ reserialized' = serialize(roundtrip, options)
    /\ pc' = "reserialized"
    /\ UNCHANGED <<content, lines, i, rawValue, config>>
    /\ UNCHANGED scanVars
    /\ UNCHANGED <<options, serialized, roundtrip, json, decoded>>
    /\ UNCHANGED apiVars
    /\ UNCHANGED buildVars

\* KernelConfigSerializer.toJSON(config)
ToJSON ==
    /\ pc = "done"
    /\ json' = toJSON(config)
    /\ pc' = "json"
    /\ UNCHANGED <<content, lines, i, rawValue, config>>
    /\ UNCHANGED scanVars
    /\ UNCHANGED <<options, serialized, roundtrip, reserialized, decoded>>
    /\ UNCHANGED apiVars
    /\ UNCHANGED buildVars

\* KernelConfigDeserializer.fromJSON(json)
FromJSON ==
    /\ pc = "json"
    /\ decoded' = fromJSON(json)
    /\ pc' = "decoded"
    /\ UNCHANGED <<content, lines, i, rawValue, config>>
    /\ UNCHANGED scanVars
    /\ UNCHANGED <<options, serialized, roundtrip, reserialized, json>>
    /\ UNCHANGED apiVars
    /\ UNCHANGED buildVars

NextRoundTrip ==
    \/ ParseStart
    \/ BlankLine
    \/ CommentLine
    \/ SectionEndLine
    \/ NewSectionLine
    \/ DisabledLine
    \/ EnabledLine
    \/ IgnoredLine
    \/ ParseReturn
    \/ ToConfig
    \/ Deserialize
    \/ ToConfigAgain
    \/ ToJSON
    \/ FromJSON

SpecRoundTrip == Init /\ [][NextRoundTrip]_vars

\* ------------------------------------------------------------------------
\* Value typing: parse of the one-line texts CONFIG_X=<raw literal>
\* ------------------------------------------------------------------------

InitClassify == InitWith({CONFIG_X \o <<"=">> \o raw : raw \in RawLiterals})

NextClassify ==
    \/ ParseStart
    \/ EnabledLine
    \/ IgnoredLine
    \/ ParseReturn

SpecClassify == InitClassify /\ [][NextClassify]_vars

\* ------------------------------------------------------------------------
\* Calls of the API on a Document that is not the result of a parse in
\* this behaviour (it may come from fromJSON or fromObject)
\* ------------------------------------------------------------------------

CONFIG_A ==
    <<"C", "O", "N", "F", "I", "G", "_", "A">>

CONFIG_A1 ==
    <<"C", "O", "N", "F", "I", "G", "_", "A", "1">>

\* the objects of at most max properties with the given keys and values
FlatConfigs(keys, values, max) ==
    {fc \in UNION {[1..n -> [key : keys, value : values]] : n \in 0..max} :
        \A j, k \in 1..Len(fc) : j # k => fc[j].key # fc[k].key}

FlatDocument(fc) ==
    [buildInfo |-> NoBuildInfo, sections |-> <<>>, flatConfig |-> fc]

\* the caller is at the given position and holds a Document of docs
InitCaller(position, docs) ==
    /\ content = <<>>
    /\ lines = <<>>
    /\ i = 0
    /\ pc = position
    /\ flatConfig = <<>>
    /\ heap = <<>>
    /\ sections = <<>>
    /\ currentSection = NoSection
    /\ sectionStack = <<>>
    /\ rawValue = <<>>
    /\ config \in docs
    /\ options = DefaultSerializeOptions
    /\ serialized = <<>>
    /\ roundtrip = EmptyDocument
    /\ reserialized = <<>>
    /\ json = toJSON(EmptyDocument)
    /\ decoded = EmptyDocument
    /\ call = NoCall
    /\ result = NoResult
    /\ NoBuild

\* the caller holds the Document config
InitDocument(docs) == InitCaller("done", docs)

\* the call c ends with the given outcome
Complete(c, outcome) ==
    /\ call' = c
    /\ result' = outcome
    /\ pc' = "returned"
    /\ UNCHANGED <<content, lines, i, rawValue, config>>
    /\ UNCHANGED scanVars
    /\ UNCHANGED postVars
    /\ UNCHANGED buildVars

\* the call c returns value
Return(c, value) == Complete(c, Returned(value))

\* ------------------------------------------------------------------------
\* toDiff of two Documents
\* ------------------------------------------------------------------------

DiffKeys == {CONFIG_A, CONFIG_A1, CONFIG_X}

DiffValues == {Undefined, Str(<<"y">>), Num(64), Num(128)}

DiffDocuments ==
    {FlatDocument(fc) : fc \in FlatConfigs(DiffKeys, DiffValues, MaxDiffKeys)}

InitDiff == InitDocument(DiffDocuments)

\* KernelConfigSerializer.toDiff(config, newConfig)
ToDiff ==
    /\ pc = "done"
    /\ \E newConfig \in DiffDocuments :
          Return([op |-> "toDiff", oldConfig |-> config,
                  newConfig |-> newConfig],
                 toDiff(config, newConfig))

SpecDiff == InitDiff /\ [][ToDiff]_vars

\* ------------------------------------------------------------------------
\* The serializers on a Document
\* ------------------------------------------------------------------------

DocKeys == {CONFIG_A, CONFIG_A1, CONFIG_X}

\* absent, the three markers, integers, strings and booleans
DocValues ==
    {Undefined, Str(<<"y">>), Str(<<"m">>), Str(<<"n">>), Num(0), Num(-1),
     Str(<<>>), Str(<<"a">>), Str(<<"a", " ", "b">>), Bool(TRUE),
     Bool(FALSE)}

\* no section, or the section General setup with one entry
DocSections ==
    {<<>>,
     <<[name |-> GeneralSetup,
        entries |-> <<[key |-> CONFIG_X, value |-> Str(<<"y">>),
                       comment |-> Undefined]>>,
        subsections |-> <<>>]>>}

Documents ==
    {[buildInfo |-> NoBuildInfo, sections |-> secs, flatConfig |-> fc] :
        secs \in DocSections,
        fc \in FlatConfigs(DocKeys, DocValues, MaxFlatKeys)}

\* the option sets serialize is called with on these Documents
SerializeOptionSets ==
    {[preserveSections |-> ps, includeComments |-> TRUE, sortKeys |-> sk,
      addHeader |-> ah, formatStyle |-> fs] :
        ps \in BOOLEAN, sk \in BOOLEAN, ah \in BOOLEAN,
        fs \in {"kernel", "quoted"}}

InitSerializers == InitDocument(Documents)

\* KernelConfigParser.serialize(config, opts)
Serialize ==
    /\ pc = "done"
    /\ \E opts \in SerializeOptionSets :
          Return([op |-> "serialize", options |-> opts],
                 serialize(config, opts))

\* KernelConfigSerializer.toObject(config, booleanStyle)
ToObject ==
    /\ pc = "done"
    /\ \E booleanStyle \in BOOLEAN :
          Return([op |-> "toObject", booleanStyle |-> booleanStyle],
                 toObject(config, booleanStyle))

\* KernelConfigSerializer.toTOML(config)
ToTOML ==
    /\ pc = "done"
    /\ Return([op |-> "toTOML"], toTOML(config))

\* KernelConfigDeserializer.fromTOML of the text toTOML returned
FromTOML ==
    /\ pc = "returned"
    /\ call.op = "toTOML"
    /\ Complete([op |-> "fromTOML", input |-> ParsableText(result.value)],
                fromTOML(ParsableText(result.value)))

\* KernelConfigSerializer.toMakefile(config)
ToMakefile ==
    /\ pc = "done"
    /\ Return([op |-> "toMakefile"], toMakefile(config))

NextSerializers ==
    \/ Serialize
    \/ ToMakefile
    \/ ToObject
    \/ ToTOML
    \/ FromTOML

SpecSerializers == InitSerializers /\ [][NextSerializers]_vars

\* ------------------------------------------------------------------------
\* The decode entry points: deserialize, fromJSON, fromTOML, fromObject
\* ------------------------------------------------------------------------

LineCompiler12 ==
    <<"C", "O", "N", "F", "I", "G", "_", "C", "C", "_", "V", "E", "R", "S", "I", "O", "N", "_", "T", "E", "X", "T", "=", "1", "2">>

DecodeLines == {LineXy, LineXNotSet, LineCompiler12, LineGeneralSetup}

DecodeTexts ==
    {join(ls) : ls \in UNION {[1..n -> DecodeLines] : n \in 0..MaxLines}}

DeserializeOptionSets == [strict : BOOLEAN, validate : BOOLEAN]

JSONTexts ==
    {MalformedText} \cup {ParsableText(toJSON(parse(text))) : text \in DecodeTexts}

TOMLTexts ==
    {MalformedText} \cup {ParsableText(toTOML(parse(text))) : text \in DecodeTexts}

DEBUG ==
    <<"D", "E", "B", "U", "G">>

MY_CONFIG_A ==
    <<"M", "Y", "_", "C", "O", "N", "F", "I", "G", "_", "A">>

ObjectKeys == {CONFIG_A, ConfigPrefix, DEBUG, MY_CONFIG_A}

ObjectValues ==
    {Bool(TRUE), Bool(FALSE), Undefined, Str(<<"y">>), Str(<<"m">>),
     Str(<<"n">>), Num(64), Str(<<"a", " ", "b">>)}

InputObjects == FlatConfigs(ObjectKeys, ObjectValues, MaxFlatKeys)

InitDecode == InitCaller("idle", {EmptyDocument})

\* KernelConfigDeserializer.deserialize(text, opts)
DeserializeText ==
    /\ pc = "idle"
    /\ \E text \in DecodeTexts, opts \in DeserializeOptionSets :
          Complete([op |-> "deserialize", input |-> text, options |-> opts],
                   deserialize(text, opts))

\* KernelConfigDeserializer.fromJSON(text, opts)
FromJSONText ==
    /\ pc = "idle"
    /\ \E text \in JSONTexts, opts \in DeserializeOptionSets :
          Complete([op |-> "fromJSON", input |-> text, options |-> opts],
                   fromJSONText(text, opts))

\* KernelConfigDeserializer.fromTOML(text): there is no options parameter
FromTOMLText ==
    /\ pc = "idle"
    /\ \E text \in TOMLTexts :
          Complete([op |-> "fromTOML", input |-> text,
                    options |-> DefaultDeserializeOptions],
                   fromTOML(text))

\* KernelConfigDeserializer.fromObject(obj)
FromObject ==
    /\ pc = "idle"
    /\ \E obj \in InputObjects :
          Return([op |-> "fromObject", input |-> obj], fromObject(obj))

\* parseKernelConfigFile(text)
ParseKernelConfigFile ==
    /\ pc = "idle"
    /\ \E text \in DecodeTexts :
          Complete([op |-> "parseKernelConfigFile", input |-> text,
                    options |-> DefaultDeserializeOptions],
                   parseKernelConfigFile(text))

NextDecode ==
    \/ DeserializeText
    \/ ParseKernelConfigFile
    \/ FromJSONText
    \/ FromTOMLText
    \/ FromObject

SpecDecode == InitDecode /\ [][NextDecode]_vars

\* ------------------------------------------------------------------------
\* The category extractors on a Document
\* ------------------------------------------------------------------------

\* Documents with each key the extractors look up, and an unrelated key
ExtractDocuments ==
    LET fields == extractProcessorConfig(EmptyDocument)
                    \o extractSecurityConfig(EmptyDocument)
                    \o extractNetworkingConfig(EmptyDocument)
                    \o extractFilesystemConfig(EmptyDocument)
        keys == {ConfigPrefix \o fields[k].key : k \in 1..Len(fields)}
                    \cup {CONFIG_X}
        values == {Undefined, Str(<<"y">>), Str(<<"m">>), Str(<<"n">>),
                   Num(4), Str(<<"a">>), Bool(TRUE)}
    IN  {FlatDocument(fc) : fc \in FlatConfigs(keys, values, MaxExtractKeys)}

InitExtract == InitDocument(ExtractDocuments)

ExtractProcessorConfig ==
    /\ pc = "done"
    /\ Return([op |-> "extractProcessorConfig"],
              extractProcessorConfig(config))

ExtractSecurityConfig ==
    /\ pc = "done"
    /\ Return([op |-> "extractSecurityConfig"],
              extractSecurityConfig(config))

ExtractNetworkingConfig ==
    /\ pc = "done"
    /\ Return([op |-> "extractNetworkingConfig"],
              extractNetworkingConfig(config))

ExtractFilesystemConfig ==
    /\ pc = "done"
    /\ Return([op |-> "extractFilesystemConfig"],
              extractFilesystemConfig(config))

NextExtract ==
    \/ ExtractProcessorConfig
    \/ ExtractSecurityConfig
    \/ ExtractNetworkingConfig
    \/ ExtractFilesystemConfig

SpecExtract == InitExtract /\ [][NextExtract]_vars

\* ------------------------------------------------------------------------
\* build.ts: the script that fetches the kernel tree and builds vmlinux.
\* A command the script spawns either cannot be spawned (Deno.Command
\* throws) or exits with a code.
\* ------------------------------------------------------------------------

\* the largest exit code of a command
MaxExitCode == 2

Exited(code) == [thrown |-> FALSE, code |-> code]

SpawnFailed == [thrown |-> TRUE, code |-> 0]

Outcomes == {Exited(code) : code \in 0..MaxExitCode} \cup {SpawnFailed}

\* Deno.exit(code)
Exit(code) ==
    /\ step' = "exited"
    /\ exitCode' = <<code>>

\* the script goes on at the given position
Goto(position) ==
    /\ step' = position
    /\ UNCHANGED exitCode

\* an exception that no catch block handles ends the script with status 1
Uncaught == Exit(1)

\* the command name was run for the ref and ended with outcome
Ran(name, ref, outcome) ==
    commands' =
        Append(commands, [name |-> name, ref |-> ref, outcome |-> outcome])

\* await run(cmd), continued at position then: a non-zero code ends the
\* script with that code, inside a try block too; only a failure to
\* spawn the command is an exception, handled at position catch
run(outcome, then, catch) ==
    IF outcome.thrown
    THEN IF catch = "none" THEN Uncaught ELSE Goto(catch)
    ELSE IF outcome.code # 0
    THEN Exit(outcome.code)
    ELSE Goto(then)

\* const NUM = INPUT.startsWith("v") ? INPUT.slice(1) : INPUT
NUM(INPUT) == IF startsWith(INPUT, <<"v">>) THEN Tail(INPUT) ELSE INPUT

\* /^[0-9]+\.[0-9]+(\.(y|[0-9]+))?$/
versionRegex(num) ==
    LET major == TakeWhile(num, Digit)
        afterMajor == Drop(num, Len(major))
        minor == TakeWhile(Tail(afterMajor), Digit)
        afterMinor == Drop(Tail(afterMajor), Len(minor))
        patch == Tail(afterMinor)
    IN  /\ major # <<>>
        /\ afterMajor # <<>>
        /\ Head(afterMajor) = "."
        /\ minor # <<>>
        /\ \/ afterMinor = <<>>
           \/ /\ Head(afterMinor) = "."
              /\ \/ patch = <<"y">>
                 \/ patch # <<>> /\ TakeWhile(patch, Digit) = patch

endsWith(s, p) ==
    Len(s) >= Len(p) /\ SubSeq(s, Len(s) - Len(p) + 1, Len(s)) = p

\* REF: the maintenance branch linux-X.Y.y or the tag vX.Y.Z
REF(num) ==
    IF endsWith(num, <<".", "y">>)
    THEN <<"l", "i", "n", "u", "x", "-">> \o num
    ELSE <<"v">> \o num

\* VERSION: NUM without the .y of a maintenance branch
VERSION(num) ==
    IF endsWith(num, <<".", "y">>) THEN SubSeq(num, 1, Len(num) - 2) ELSE num

\* the ref of the running script
Ref == REF(NUM(args[1]))

Arguments ==
    {<<>>,
     << <<"6", ".", "1">> >>,
     << <<"v", "6", ".", "1", ".", "1", "2">> >>,
     << <<"6", ".", "1", ".", "y">> >>,
     << <<"6", ".", "x">> >>,
     << <<"v">> >>}

Archs ==
    {<<"x", "8", "6", "_", "6", "4">>, <<"a", "a", "r", "c", "h", "6", "4">>}

\* the script starts with some arguments in a directory that may hold a
\* linux-stable checkout and a .config file
InitBuild ==
    /\ content = <<>>
    /\ lines = <<>>
    /\ i = 0
    /\ pc = "idle"
    /\ flatConfig = <<>>
    /\ heap = <<>>
    /\ sections = <<>>
    /\ currentSection = NoSection
    /\ sectionStack = <<>>
    /\ rawValue = <<>>
    /\ config = EmptyDocument
    /\ options = DefaultSerializeOptions
    /\ serialized = <<>>
    /\ roundtrip = EmptyDocument
    /\ reserialized = <<>>
    /\ json = toJSON(EmptyDocument)
    /\ decoded = EmptyDocument
    /\ call = NoCall
    /\ result = NoResult
    /\ args \in Arguments
    /\ step = "start"
    /\ exitCode = Running
    /\ commands = <<>>
    /\ files \in SUBSET {"linux-stable", ".config"}
    /\ vmlinux = <<>>

\* a step of the script leaves the configuration model alone
BuildStep ==
    /\ UNCHANGED <<content, lines, i, pc, rawValue, config>>
    /\ UNCHANGED scanVars
    /\ UNCHANGED postVars
    /\ UNCHANGED apiVars
    /\ UNCHANGED args

\* the usage check and the validation of the version argument
CheckArguments ==
    /\ step = "start"
    /\ IF Len(args) < 1
       THEN Exit(1)
       ELSE IF ~versionRegex(NUM(args[1]))
       THEN Exit(1)
       ELSE Goto("which")
    /\ UNCHANGED <<commands, files, vmlinux>>
    /\ BuildStep

\* const hasAptGet = await runQuiet(["which", "apt-get"])
WhichAptGet ==
    /\ step = "which"
    /\ \E outcome \in Outcomes :
          /\ Ran("which apt-get", <<>>, outcome)
          /\ IF outcome.thrown
             THEN Uncaught
             ELSE IF outcome.code = 0
             THEN Goto("install")
             ELSE Goto("repository")
    /\ UNCHANGED <<files, vmlinux>>
    /\ BuildStep

\* try { await run(["sudo", "apt-get", "install", ...]) } catch { }
AptGetInstall ==
    /\ step = "install"
    /\ \E outcome \in Outcomes :
          /\ Ran("apt-get install", <<>>, outcome)
          /\ run(outcome, "repository", "repository")
    /\ UNCHANGED <<files, vmlinux>>
    /\ BuildStep

\* no linux-stable directory: git clone --depth=1 --branch REF
Clone ==
    /\ step = "repository"
    /\ "linux-stable" \notin files
    /\ \E outcome \in Outcomes :
          /\ Ran("clone --depth=1", Ref, outcome)
          /\ run(outcome, "config", "none")
          /\ files' = IF outcome = Exited(0)
                      THEN files \cup {"linux-stable"}
                      ELSE files
    /\ UNCHANGED vmlinux
    /\ BuildStep

\* linux-stable exists: git fetch --tags --force origin
FetchTags ==
    /\ step = "repository"
    /\ "linux-stable" \in files
    /\ \E outcome \in Outcomes :
          /\ Ran("fetch --tags", <<>>, outcome)
          /\ run(outcome, "fetchShallow", "none")
    /\ UNCHANGED <<files, vmlinux>>
    /\ BuildStep

\* try { await run([... "fetch", "--depth=1", "origin", REF:REF]) }
FetchShallow ==
    /\ step = "fetchShallow"
    /\ \E outcome \in Outcomes :
          /\ Ran("fetch --depth=1", Ref, outcome)
          /\ run(outcome, "checkout", "fetchFull")
    /\ UNCHANGED <<files, vmlinux>>
    /\ BuildStep

\* catch { await run([... "fetch", "origin", REF:REF]) }
FetchFull ==
    /\ step = "fetchFull"
    /\ \E outcome \in Outcomes :
          /\ Ran("fetch", Ref, outcome)
          /\ run(outcome, "checkout", "none")
    /\ UNCHANGED <<files, vmlinux>>
    /\ BuildStep

\* git checkout -f REF
Checkout ==
    /\ step = "checkout"
    /\ \E outcome \in Outcomes :
          /\ Ran("checkout", Ref, outcome)
          /\ run(outcome, "config", "none")
    /\ UNCHANGED <<files, vmlinux>>
    /\ BuildStep

\* write the default .config when there is none, copy it into the tree
CopyConfig ==
    /\ step = "config"
    /\ files' = files \cup {".config", "linux-stable/.config"}
    /\ Goto("nproc")
    /\ UNCHANGED <<commands, vmlinux>>
    /\ BuildStep

\* getNproc(): the exit code is not looked at
Nproc ==
    /\ step = "nproc"
    /\ \E outcome \in Outcomes :
          /\ Ran("nproc", <<>>, outcome)
          /\ IF outcome.thrown THEN Uncaught ELSE Goto("make")
    /\ UNCHANGED <<files, vmlinux>>
    /\ BuildStep

\* make vmlinux -jN fed by yes; a non-zero status ends the script
Make ==
    /\ step = "make"
    /\ \E outcome \in Outcomes :
          /\ Ran("make vmlinux", <<>>, outcome)
          /\ run(outcome, "rename", "none")
          /\ files' = IF outcome = Exited(0)
                      THEN files \cup {"linux-stable/vmlinux"}
                      ELSE files
    /\ UNCHANGED vmlinux
    /\ BuildStep

\* getMachineArch() (the exit code is not looked at), then rename vmlinux
\* to vmlinux-VERSION.arch and Deno.exit(0)
Rename ==
    /\ step = "rename"
    /\ \E outcome \in Outcomes :
          /\ Ran("uname -m", <<>>, outcome)
          /\ IF outcome.thrown
             THEN /\ Uncaught
                  /\ UNCHANGED <<files, vmlinux>>
             ELSE /\ \E arch \in Archs :
                        vmlinux' = <<"v", "m", "l", "i", "n", "u", "x", "-">>
                                      \o VERSION(NUM(args[1])) \o <<".">>
                                      \o arch
                  /\ files' = files \ {"linux-stable/vmlinux"}
                  /\ Exit(0)
    /\ BuildStep

NextBuild ==
    \/ CheckArguments
    \/ WhichAptGet
    \/ AptGetInstall
    \/ Clone
    \/ FetchTags
    \/ FetchShallow
    \/ FetchFull
    \/ Checkout
    \/ CopyConfig
    \/ Nproc
    \/ Make
    \/ Rename

SpecBuild == InitBuild /\ [][NextBuild]_vars

\* ------------------------------------------------------------------------
\* Properties
\* ------------------------------------------------------------------------

\* the entries of a sequence of sections, at every nesting depth
RECURSIVE AllEntries(_)
AllEntries(secs) ==
    UNION {{secs[k].entries[j] : j \in 1..Len(secs[k].entries)}
              \cup AllEntries(secs[k].subsections) : k \in 1..Len(secs)}

KeySet(fc) == {fc[k].key : k \in 1..Len(fc)}

\* two flatConfig objects with the same keys and the same value per key
SameFlatConfig(a, b) ==
    /\ KeySet(a) = KeySet(b)
    /\ \A key \in KeySet(a) : Get(a, key) = Get(b, key)

\* the section that holds ref among its subsections, NoSection for a
\* top-level section
ParentOf(h, ref) ==
    IF \E p \in 1..Len(h) :
          \E k \in 1..Len(h[p].subsections) : h[p].subsections[k] = ref
    THEN CHOOSE p \in 1..Len(h) :
          \E k \in 1..Len(h[p].subsections) : h[p].subsections[k] = ref
    ELSE NoSection

\* the loop is about to scan a line
Scanning == pc = "scan" /\ i < Len(lines)

\* every line of the text is blank, a banner or end marker, a disabled
\* option or an enabled option
WellFormedText(text) ==
    \A k \in 1..Len(split(text)) :
        LineKind(trim(split(text)[k])) # "ignored"

\* C1: a Document parsed from well-formed native text and rendered with
\* preserveSections:true parses back to the same flatConfig (same keys,
\* same value per key).
NativeRoundTrip ==
    (pc = "roundtrip" /\ options = DefaultSerializeOptions
        /\ WellFormedText(content))
        => SameFlatConfig(roundtrip.flatConfig, config.flatConfig)

\* C2: rendering is idempotent: rendering the parse of a rendering, with
\* the same options, gives the same text.
NativeIdempotence ==
    pc = "reserialized" => reserialized = serialized

\* C3: fromJSON(toJSON(D)) equals D: same section tree, same flatConfig
\* keys and values, same buildInfo.
InterchangeRoundTrip ==
    pc = "decoded" =>
        /\ decoded.sections = config.sections
        /\ SameFlatConfig(decoded.flatConfig, config.flatConfig)
        /\ decoded.buildInfo = config.buildInfo

\* C4: in a parsed Document every entry of every section, at any depth, has
\* its key in flatConfig with the entry's value.
EntriesAgreeWithFlatConfig ==
    pc = "done" =>
        \A e \in AllEntries(config.sections) :
            /\ HasKey(config.flatConfig, e.key)
            /\ Get(config.flatConfig, e.key) = e.value

\* C5: in a parsed Document every key of flatConfig is the key of an entry
\* of some section.
FlatConfigIsUnionOfSections ==
    pc = "done" =>
        \A key \in KeySet(config.flatConfig) :
            \E e \in AllEntries(config.sections) : e.key = key

\* C6: scanning an end marker while a section is open makes the parent of
\* that section current (none when the section is top-level).
EndMarkerReturnsToParent ==
    [][(Scanning /\ startsWith(lines[i + 1], EndOfBannerPrefix)
            /\ currentSection # NoSection)
        => currentSection' = ParentOf(heap, currentSection)]_vars

\* C7: scanning an end marker while no section is open (no current
\* section, empty stack) changes nothing of the parse state and the scan
\* goes on.
UnmatchedEndMarkerIsNoOp ==
    [][(Scanning /\ startsWith(lines[i + 1], EndOfBannerPrefix)
            /\ currentSection = NoSection /\ sectionStack = <<>>)
        => (UNCHANGED scanVars /\ pc' = "scan" /\ i' = i + 1)]_vars

\* C7 witness: an end marker was scanned after an entry, with no section
\* ever opened.
UnmatchedEndMarkerScanned ==
    /\ pc = "scan"
    /\ i >= 2
    /\ startsWith(lines[i], EndOfBannerPrefix)
    /\ heap = <<>>
    /\ flatConfig # <<>>

TextCommentedEntry ==
    join(<<LineGeneralSetup, LineXCommented, LineEndGeneralSetup>>)

TextEntry ==
    join(<<LineGeneralSetup, LineXy, LineEndGeneralSetup>>)

\* C8: the text "# General setup", "# CONFIG_X=y", "# end of General setup"
\* parses to one top-level section, General setup, with exactly one entry,
\* for CONFIG_X.
SectionNestingExample ==
    (pc = "done" /\ content = TextCommentedEntry) =>
        /\ Len(config.sections) = 1
        /\ config.sections[1].name = GeneralSetup
        /\ Len(config.sections[1].entries) = 1
        /\ config.sections[1].entries[1].key = CONFIG_X

\* C8 as amended: that text parses to one top-level section, General
\* setup, with no entry and no CONFIG_X in flatConfig (the commented line
\* matches no entry pattern); with the line "CONFIG_X=y" instead, the
\* section has exactly one entry, CONFIG_X with value y.
SectionNestingAmended ==
    /\ (pc = "done" /\ content = TextCommentedEntry) =>
          /\ Len(config.sections) = 1
          /\ config.sections[1].name = GeneralSetup
          /\ config.sections[1].entries = <<>>
          /\ config.sections[1].subsections = <<>>
          /\ ~HasKey(config.flatConfig, CONFIG_X)
    /\ (pc = "done" /\ content = TextEntry) =>
          /\ Len(config.sections) = 1
          /\ config.sections[1].name = GeneralSetup
          /\ config.sections[1].entries =
                <<[key |-> CONFIG_X, value |-> Str(<<"y">>),
                   comment |-> Undefined]>>
          /\ config.sections[1].subsections = <<>>

\* C8 witness: the text of the example has been parsed.
SectionNestingParsed ==
    /\ pc = "done"
    /\ content = TextCommentedEntry
    /\ Len(config.sections) = 1

\* C9: scanning "# KEY is not set" makes KEY a key of flatConfig with no
\* value, in place of any earlier value and leaving the other keys alone,
\* and appends the entry (KEY, no value, comment "is not set") to the
\* current section when there is one.
DisabledEntryRecorded ==
    [][(Scanning /\ trim(lines[i + 1]) = LineXNotSet) =>
        /\ HasKey(flatConfig', CONFIG_X)
        /\ Get(flatConfig', CONFIG_X) = Undefined
        /\ Keys(flatConfig') =
              IF HasKey(flatConfig, CONFIG_X)
              THEN Keys(flatConfig)
              ELSE Append(Keys(flatConfig), CONFIG_X)
        /\ \A key \in KeySet(flatConfig) \ {CONFIG_X} :
              Get(flatConfig', key) = Get(flatConfig, key)
        /\ IF currentSection # NoSection
           THEN heap' =
                  [heap EXCEPT ![currentSection].entries =
                      Append(@, [key |-> CONFIG_X, value |-> Undefined,
                                 comment |-> Str(IsNotSetText)])]
           ELSE heap' = heap
        /\ UNCHANGED <<sections, currentSection, sectionStack>>]_vars

\* C9 witness: inside a section, CONFIG_X=y was followed by
\* "# CONFIG_X is not set".
DisabledEntryScanned ==
    /\ pc = "scan"
    /\ i = 3
    /\ lines = <<LineGeneralSetup, LineXy, LineXNotSet>>
    /\ HasKey(flatConfig, CONFIG_X)
    /\ Get(flatConfig, CONFIG_X) = Undefined
    /\ Len(heap[currentSection].entries) = 2

\* the digits of the two radixes, in value order
DecimalDigits == <<"0", "1", "2", "3", "4", "5", "6", "7", "8", "9">>

UpperHexDigits == DecimalDigits \o <<"A", "B", "C", "D", "E", "F">>

LowerHexDigits == DecimalDigits \o <<"a", "b", "c", "d", "e", "f">>

\* an optionally negative run of decimal digits
DecimalRun(r) ==
    \E ds \in {r, Tail(r)} :
        /\ ds # <<>>
        /\ ds = r \/ Head(r) = "-"
        /\ \A k \in 1..Len(ds) : \E d \in 1..10 : ds[k] = DecimalDigits[d]

\* 0x followed by a run of hexadecimal digits
HexRun(r) ==
    /\ Len(r) > 2
    /\ SubSeq(r, 1, 2) = <<"0", "x">>
    /\ \A k \in 3..Len(r) :
          \E d \in 1..16 : r[k] \in {UpperHexDigits[d], LowerHexDigits[d]}

RECURSIVE Power(_, _)
Power(b, e) == IF e = 0 THEN 1 ELSE b * Power(b, e - 1)

\* the integer a run of digits denotes: the sum of digit * radix^position
RECURSIVE PositionalValue(_, _)
PositionalValue(ds, radix) ==
    IF ds = <<>> THEN 0
    ELSE LET d == CHOOSE v \in 0..(radix - 1) :
                    Head(ds) \in {UpperHexDigits[v + 1], LowerHexDigits[v + 1]}
         IN  d * Power(radix, Len(ds) - 1) + PositionalValue(Tail(ds), radix)

\* the integer a decimal run denotes
DecimalValue(r) ==
    IF Head(r) = "-" THEN 0 - PositionalValue(Tail(r), 10)
    ELSE PositionalValue(r, 10)

\* the value of CONFIG_X after parsing the one-line text CONFIG_X=<literal>
ClassifiedValue == Get(config.flatConfig, CONFIG_X)

\* the typing rules before the string rule, and that 0x2A and 42 classify
\* to the same value
TypedBeforeString(r, v) ==
    /\ r \in {<<"y">>, <<"m">>, <<"n">>} => v = Str(r)
    /\ DecimalRun(r) => v = Num(DecimalValue(r))
    /\ HexRun(r) => v = Num(PositionalValue(SubSeq(r, 3, Len(r)), 16))
    /\ r \in {Lit0x2A, Lit42} => v = Num(42)
    /\ v.t \in {"string", "number"}

IsOtherLiteral(r) ==
    /\ r \notin {<<"y">>, <<"m">>, <<"n">>}
    /\ ~DecimalRun(r)
    /\ ~HexRun(r)

\* C10: the literal of a KEY=REST line is typed by the rules in order:
\* y, m, n; a decimal integer; a 0x hexadecimal integer; otherwise a string
\* that loses one layer of double quotes when its first and last
\* characters are both quote marks.
ValueClassification ==
    (pc = "done" /\ rawValue # <<>>) =>
        /\ TypedBeforeString(rawValue, ClassifiedValue)
        /\ IsOtherLiteral(rawValue) =>
              ClassifiedValue =
                Str(IF Head(rawValue) = Quote
                        /\ rawValue[Len(rawValue)] = Quote
                    THEN SubSeq(rawValue, 2, Len(rawValue) - 1)
                    ELSE rawValue)

\* C10 as amended: the same rules, the string losing one layer of double
\* quotes when it has at least two characters and its first and last
\* characters are both quote marks; a literal that is a single quote mark
\* stays that quote mark.
ValueClassificationAmended ==
    (pc = "done" /\ rawValue # <<>>) =>
        /\ TypedBeforeString(rawValue, ClassifiedValue)
        /\ IsOtherLiteral(rawValue) =>
              ClassifiedValue =
                Str(IF Len(rawValue) >= 2 /\ Head(rawValue) = Quote
                        /\ rawValue[Len(rawValue)] = Quote
                    THEN SubSeq(rawValue, 2, Len(rawValue) - 1)
                    ELSE rawValue)

\* C10 witness: the literal 0x2A has been typed as the integer 42.
HexLiteralClassified ==
    /\ pc = "done"
    /\ rawValue = Lit0x2A
    /\ ClassifiedValue = Num(42)

\* the lines that are blank or of no recognised shape
UnrecognisedLines == {<<>>, LineBlank, LineInvalid, LineXCommented}

\* C11: parse never raises and returns a Document for every input text:
\* every line, whatever its shape, is consumed and the scan goes on with
\* the next one, and after the last line parse returns the Document of
\* the flatConfig it has collected.  A blank line, and a non-blank line
\* that is neither a comment line without CONFIG_, nor `# KEY is not
\* set`, nor `KEY=REST`, leaves flatConfig, the section tree, the current
\* section and the section stack unchanged.
LenientParsing ==
    [][/\ Scanning => (pc' = "scan" /\ i' = i + 1)
       /\ (pc = "scan" /\ i = Len(lines))
            => (pc' = "done" /\ config'.flatConfig = flatConfig)
       /\ (Scanning /\ lines[i + 1] \in UnrecognisedLines)
            => UNCHANGED scanVars]_vars

\* an unrecognised line has been scanned after an entry and a banner
UnrecognisedLineScanned ==
    /\ pc = "scan"
    /\ i = 3
    /\ lines[i] \in {LineInvalid, LineXCommented}
    /\ flatConfig # <<>>
    /\ currentSection # NoSection

\* the change lines of one key, as the differencer is described
ChangeLines(oldFlat, newFlat, key) ==
    LET old == Get(oldFlat, key)
        new == Get(newFlat, key)
        removal == <<"-", " ">> \o key \o <<"=">> \o TemplateString(old)
        addition == <<"+", " ">> \o key \o <<"=">> \o TemplateString(new)
    IN  CASE old = new -> <<>>
          [] old # new /\ old = Undefined -> <<addition>>
          [] old # new /\ old # Undefined /\ new = Undefined -> <<removal>>
          [] OTHER -> <<removal, addition>>

\* the change lines of the keys of the union, old keys first
RECURSIVE AllChangeLines(_, _, _)
AllChangeLines(oldFlat, newFlat, keys) ==
    IF keys = <<>> THEN <<>>
    ELSE ChangeLines(oldFlat, newFlat, Head(keys))
            \o AllChangeLines(oldFlat, newFlat, Tail(keys))

ExpectedChangeLines(oldConfig, newConfig) ==
    LET oldFlat == oldConfig.flatConfig
        newFlat == newConfig.flatConfig
        added == SelectSeq(Keys(newFlat), LAMBDA key : ~HasKey(oldFlat, key))
    IN  AllChangeLines(oldFlat, newFlat, Keys(oldFlat) \o added)

DiffReturned == pc = "returned" /\ call.op = "toDiff"

\* C12: the lines toDiff yields are, per key of the union of both
\* flatConfigs, nothing when both sides hold the same value or are both
\* absent, `+ KEY=value` for an added value, `- KEY=value` for a removed
\* value, `- KEY=old` then `+ KEY=new` for a changed value, and no other
\* lines.
DiffOutput ==
    DiffReturned
        => split(result.value)
              = ExpectedChangeLines(call.oldConfig, call.newConfig)

\* C12, amended: toDiff yields the line `# Configuration differences` and
\* an empty line, and after these two lines exactly the change lines of
\* the keys of the union.
DiffOutputAfterHeader ==
    DiffReturned
        => split(result.value)
              = <<DiffHeaderLine, <<>>>>
                    \o ExpectedChangeLines(call.oldConfig, call.newConfig)

\* one key changed from 64 to 128 and one key added
DiffOfChangeAndAddition ==
    /\ DiffReturned
    /\ call.oldConfig.flatConfig = <<[key |-> CONFIG_A, value |-> Num(64)]>>
    /\ call.newConfig.flatConfig
          = <<[key |-> CONFIG_X, value |-> Str(<<"y">>)],
              [key |-> CONFIG_A, value |-> Num(128)]>>
    /\ Len(split(result.value)) = 5

\* serialize has returned the text of config
SerializeReturned == pc = "returned" /\ call.op = "serialize"

\* the flat path: no sections, or preserveSections:false
FlatPath == ~call.options.preserveSections \/ config.sections = <<>>

\* the lines of a text, none for the empty text
EmittedLines(text) == IF text = <<>> THEN <<>> ELSE split(text)

\* the key a line starts with, empty when the line is not KEY=...
KeyOfLine(line) ==
    LET key == TakeWhile(line, WordChar) IN
    IF key # <<>> /\ Len(line) > Len(key) /\ line[Len(key) + 1] = "="
    THEN key ELSE <<>>

\* the emitted lines that start with a key
KeyLines(text) ==
    SelectSeq(EmittedLines(text), LAMBDA line : KeyOfLine(line) # <<>>)

ExpectedEntryLine(key, value, opts) ==
    LET wrapped ==
            \/ \E c \in {" ", "#", "="} :
                  \E k \in 1..Len(value.s) : value.s[k] = c
            \/ opts.formatStyle = "quoted"
    IN  CASE value = Undefined -> <<"#", " ">> \o key \o IsNotSetSuffix
          [] value \in {Str(<<"y">>), Str(<<"m">>), Str(<<"n">>)} ->
                key \o <<"=">> \o value.s
          [] value.t = "number" -> key \o <<"=">> \o NumberToString(value.n)
          [] OTHER ->
                key \o <<"=">>
                    \o (IF wrapped THEN <<Quote>> \o value.s \o <<Quote>>
                        ELSE value.s)

\* every value of the flatConfig is absent, a marker, an integer or a string
PlainValues(fc) ==
    \A k \in 1..Len(fc) : fc[k].value.t \in {"undefined", "number", "string"}

\* C14: serialize renders an entry as `# KEY is not set` exactly when its
\* value is absent, and every entry that has a value as a KEY=... line:
\* markers and integers (0 and negative integers too) verbatim, strings
\* (the empty string too) bare, or wrapped in double quotes when they hold
\* a space, `#` or `=` or when formatStyle is "quoted".
EntryRendering ==
    (SerializeReturned /\ FlatPath /\ ~call.options.sortKeys
        /\ ~call.options.addHeader /\ PlainValues(config.flatConfig))
        => EmittedLines(result.value)
              = [k \in 1..Len(config.flatConfig) |->
                    ExpectedEntryLine(config.flatConfig[k].key,
                                      config.flatConfig[k].value,
                                      call.options)]

\* a decode entry point has ended
DecodeEnded ==
    pc = "returned" /\ call.op \in {"deserialize", "fromJSON", "fromTOML"}

\* decoding fails on malformed text; validation fails, when it was asked
\* for, on a decoded value the schema rejects
DecodeFails ==
    CASE call.op = "deserialize" ->
            call.options.validate
                /\ ~KernelConfigSchemaAccepts(parse(call.input))
      [] call.op = "fromJSON" ->
            \/ ~call.input.wellFormed
            \/ call.options.validate
                /\ ~KernelConfigSchemaAccepts(fromJSON(call.input.data))
      [] call.op = "fromTOML" -> ~call.input.wellFormed

\* C15: when decoding or validation fails, deserialize, fromJSON and
\* fromTOML raise only if the caller selected strict mode; without strict
\* mode the failure is swallowed and the call returns the empty Document.
StrictSelectsRaise ==
    (DecodeEnded /\ DecodeFails)
        => IF call.options.strict
           THEN result.raised
           ELSE result = Returned(EmptyDocument)

\* the key starts with CONFIG_
HasConfigPrefix(key) == Len(key) >= 7 /\ SubSeq(key, 1, 7) = ConfigPrefix

\* C16: decoding the text of toTOML(D) with fromTOML gives a Document
\* whose flatConfig holds every CONFIG_ key of D.flatConfig that has a
\* value, with the same value.
TabularKeepsFlatConfig ==
    (pc = "returned" /\ call.op = "fromTOML")
        => /\ ~result.raised
           /\ \A k \in 1..Len(config.flatConfig) :
                 (HasConfigPrefix(config.flatConfig[k].key)
                    /\ config.flatConfig[k].value # Undefined)
                 => /\ HasKey(result.value.flatConfig,
                              config.flatConfig[k].key)
                    /\ Get(result.value.flatConfig,
                           config.flatConfig[k].key)
                          = config.flatConfig[k].value

\* the value fromObject is described to store for an input value
DecodedObjectValue(value) ==
    CASE value = Bool(TRUE) -> Str(<<"y">>)
      [] value = Bool(FALSE) -> Undefined
      [] OTHER -> value

\* C17: fromObject returns a Document with no sections whose flatConfig
\* keys are exactly the input keys that start with CONFIG_; true becomes
\* the marker y, false a present key with absent value, and y, m, n,
\* numbers and strings are kept.
ObjectDecoding ==
    (pc = "returned" /\ call.op = "fromObject")
        => /\ ~result.raised
           /\ result.value.sections = <<>>
           /\ KeySet(result.value.flatConfig)
                 = {call.input[k].key : k \in
                      {j \in 1..Len(call.input) :
                          HasConfigPrefix(call.input[j].key)}}
           /\ \A k \in 1..Len(call.input) :
                 HasConfigPrefix(call.input[k].key)
                 => Get(result.value.flatConfig, call.input[k].key)
                       = DecodedObjectValue(call.input[k].value)

\* an object with a key without the prefix and a false option was decoded
ObjectWithForeignKeyDecoded ==
    /\ pc = "returned"
    /\ call.op = "fromObject"
    /\ call.input = <<[key |-> DEBUG, value |-> Bool(TRUE)],
                      [key |-> CONFIG_A, value |-> Bool(FALSE)]>>
    /\ result.value.flatConfig = <<[key |-> CONFIG_A, value |-> Undefined]>>

\* the field toObject is described to give for a flatConfig value
EncodedObjectValue(value, booleanStyle) ==
    CASE ~booleanStyle -> value
      [] booleanStyle /\ value \in {Str(<<"y">>), Str(<<"m">>)} -> Bool(TRUE)
      [] booleanStyle /\ value \in {Str(<<"n">>), Undefined} -> Bool(FALSE)
      [] OTHER -> value

\* C18: toObject returns one field per flatConfig key and no others; with
\* booleanStyle false each field is the flatConfig value, with booleanStyle
\* true y and m give true, n and an absent value give false, and every
\* other value passes through.
ObjectEncoding ==
    (pc = "returned" /\ call.op = "toObject")
        => /\ ~result.raised
           /\ Keys(result.value) = Keys(config.flatConfig)
           /\ \A k \in 1..Len(config.flatConfig) :
                 result.value[k].value
                    = EncodedObjectValue(config.flatConfig[k].value,
                                         call.booleanStyle)

\* a module option and a disabled option were encoded as booleans
MarkersEncodedAsBooleans ==
    /\ pc = "returned"
    /\ call.op = "toObject"
    /\ call.booleanStyle
    /\ config.flatConfig = <<[key |-> CONFIG_A, value |-> Str(<<"m">>)],
                             [key |-> CONFIG_X, value |-> Undefined]>>
    /\ result.value = <<[key |-> CONFIG_A, value |-> Bool(TRUE)],
                        [key |-> CONFIG_X, value |-> Bool(FALSE)]>>

NrCpusField ==
    <<"N", "R", "_", "C", "P", "U", "S">>

\* the fields of each extractor
ExtractorFields ==
    [extractProcessorConfig |->
        <<<<"S", "M", "P">>,
          <<"N", "R", "_", "C", "P", "U", "S">>,
          <<"X", "8", "6", "_", "6", "4">>,
          <<"N", "U", "M", "A">>,
          <<"P", "R", "E", "E", "M", "P", "T">>,
          <<"P", "R", "E", "E", "M", "P", "T", "_", "V", "O", "L", "U", "N",
              "T", "A", "R", "Y">>,
          <<"P", "R", "E", "E", "M", "P", "T", "_", "N", "O", "N", "E">>>>,
     extractSecurityConfig |->
        <<<<"S", "E", "C", "U", "R", "I", "T", "Y">>,
          <<"S", "E", "C", "U", "R", "I", "T", "Y", "_", "S", "E", "L", "I",
              "N", "U", "X">>,
          <<"S", "E", "C", "U", "R", "I", "T", "Y", "_", "A", "P", "P", "A",
              "R", "M", "O", "R">>,
          <<"S", "E", "C", "U", "R", "I", "T", "Y", "_", "S", "M", "A", "C",
              "K">>,
          <<"S", "E", "C", "C", "O", "M", "P">>,
          <<"S", "T", "A", "C", "K", "P", "R", "O", "T", "E", "C", "T", "O",
              "R">>,
          <<"F", "O", "R", "T", "I", "F", "Y", "_", "S", "O", "U", "R", "C",
              "E">>>>,
     extractNetworkingConfig |->
        <<<<"N", "E", "T">>,
          <<"I", "N", "E", "T">>,
          <<"I", "P", "V", "6">>,
          <<"N", "E", "T", "F", "I", "L", "T", "E", "R">>,
          <<"P", "A", "C", "K", "E", "T">>,
          <<"U", "N", "I", "X">>>>,
     extractFilesystemConfig |->
        <<<<"E", "X", "T", "4", "_", "F", "S">>,
          <<"X", "F", "S", "_", "F", "S">>,
          <<"B", "T", "R", "F", "S", "_", "F", "S">>,
          <<"N", "F", "S", "_", "F", "S">>,
          <<"T", "M", "P", "F", "S">>>>]

ExtractorReturned == pc = "returned" /\ call.op \in DOMAIN ExtractorFields

\* flatConfig holds the built-in marker y for CONFIG_<name>
HoldsBuiltIn(fc, name) ==
    \E k \in 1..Len(fc) :
        /\ fc[k].key = <<"C", "O", "N", "F", "I", "G", "_">> \o name
        /\ fc[k].value = Str(<<"y">>)

\* C19: each boolean field of the four extractors is true exactly when
\* flatConfig holds the built-in marker y for the corresponding CONFIG_
\* key, and false in every other case; NR_CPUS is the flatConfig value
\* passed through; no extractor raises.
ExtractorFlags ==
    ExtractorReturned
        => /\ ~result.raised
           /\ Keys(result.value) = ExtractorFields[call.op]
           /\ \A k \in 1..Len(result.value) :
                 IF result.value[k].key = NrCpusField
                 THEN result.value[k].value
                        = Get(config.flatConfig, ConfigPrefix \o NrCpusField)
                 ELSE result.value[k].value
                        = Bool(HoldsBuiltIn(config.flatConfig,
                                            result.value[k].key))

\* CONFIG_SECCOMP=m: extractSecurityConfig gives SECCOMP false
ModuleOptionExtracted ==
    /\ pc = "returned"
    /\ call.op = "extractSecurityConfig"
    /\ config.flatConfig
          = <<[key |-> ConfigPrefix \o <<"S", "E", "C", "C", "O", "M", "P">>,
               value |-> Str(<<"m">>)]>>
    /\ \A k \in 1..Len(result.value) : result.value[k].value = Bool(FALSE)

\* the line is the entry line of the key: KEY=... or `# KEY is not set`
IsEntryLineOf(line, key) ==
    \/ startsWith(line, key \o <<"=">>)
    \/ line = <<"#", " ">> \o key \o IsNotSetSuffix

\* the emitted lines that are the entry line of some key of the flatConfig
EntryLines(text, fc) ==
    SelectSeq(EmittedLines(text),
              LAMBDA line : \E key \in KeySet(fc) : IsEntryLineOf(line, key))

\* the names of the sections of a tree
RECURSIVE SectionNames(_)
SectionNames(secs) ==
    UNION {{secs[k].name} \cup SectionNames(secs[k].subsections) :
              k \in 1..Len(secs)}

\* C20: with preserveSections:false and sortKeys:false, and also with
\* preserveSections:true when the Document has no sections, serialize
\* emits exactly one entry line per flatConfig key, in insertion order,
\* and no section banner and no `# end of` line.
FlatRendering ==
    (SerializeReturned /\ ~call.options.sortKeys /\ FlatPath)
        => /\ Len(EntryLines(result.value, config.flatConfig))
                 = Len(config.flatConfig)
           /\ \A k \in 1..Len(config.flatConfig) :
                 k <= Len(EntryLines(result.value, config.flatConfig))
                 => IsEntryLineOf(
                        EntryLines(result.value, config.flatConfig)[k],
                        config.flatConfig[k].key)
           /\ \A k \in 1..Len(EmittedLines(result.value)) :
                 /\ ~startsWith(EmittedLines(result.value)[k],
                                EndOfBannerPrefix)
                 /\ \A name \in SectionNames(config.sections) :
                       EmittedLines(result.value)[k] # <<"#", " ">> \o name


\* ------------------------------------------------------------------------
\* C21
\* ------------------------------------------------------------------------

\* a call that parses text and may validate the parsed Document has ended
ParsedTextValidated ==
    /\ pc = "returned"
    /\ \/ call.op = "parseKernelConfigFile"
       \/ call.op = "deserialize" /\ call.options.validate

\* C21: every Document parse returns is accepted by KernelConfigSchema, for
\* any input text (a text that sets CONFIG_CC_VERSION_TEXT to an integer
\* included); hence parseKernelConfigFile never raises and deserialize with
\* validate:true returns the parsed Document, never the empty Document in
\* its place.
ParsedDocumentIsValid ==
    ParsedTextValidated
        => /\ KernelConfigSchemaAccepts(parse(call.input))
           /\ result = Returned(parse(call.input))


\* ------------------------------------------------------------------------
\* C22
\* ------------------------------------------------------------------------

\* the proper ancestors of the section ref, outermost first
RECURSIVE AncestorsOf(_, _)
AncestorsOf(h, ref) ==
    IF ref = NoSection \/ ParentOf(h, ref) = NoSection
    THEN <<>>
    ELSE Append(AncestorsOf(h, ParentOf(h, ref)), ParentOf(h, ref))

\* how many times the section ref occurs in the trees rooted at refs
RECURSIVE Occurrences(_, _, _)
Occurrences(h, refs, ref) ==
    IF refs = <<>>
    THEN 0
    ELSE (IF Head(refs) = ref THEN 1 ELSE 0)
            + Occurrences(h, h[Head(refs)].subsections, ref)
            + Occurrences(h, Tail(refs), ref)

\* C22: after every line of the scan the section stack holds exactly the
\* proper ancestors of the current section, outermost first (it is empty
\* when the current section is top-level or when there is none), and every
\* section created so far occurs exactly once in the tree rooted at the
\* top-level sections list.
SectionStackInvariant ==
    /\ sectionStack = AncestorsOf(heap, currentSection)
    /\ \A ref \in 1..Len(heap) : Occurrences(heap, sections, ref) = 1

\* C22 witness: three banners were scanned, each nested in the one before.
NestedSectionsScanned ==
    /\ pc = "scan"
    /\ i = 3
    /\ currentSection = 3
    /\ sectionStack = <<1, 2>>


\* ------------------------------------------------------------------------
\* C23
\* ------------------------------------------------------------------------

\* the line toMakefile is to emit for a flatConfig key and its value
ExpectedMakefileLine(key, value) ==
    IF value = Undefined
    THEN <<"#", " ">> \o key \o IsNotSetSuffix
    ELSE SubSeq(key, Len(ConfigPrefix) + 1, Len(key))
            \o <<" ", ":", "=", " ">> \o TemplateString(value)

\* C23: for every Document, toMakefile renders each flatConfig key whose
\* value is absent as the comment line `# KEY is not set`, and renders an
\* assignment `NAME := value` (NAME being the key without its CONFIG_
\* prefix) only for the keys that have a value.
MakefileRendering ==
    (pc = "returned" /\ call.op = "toMakefile")
        => EmittedLines(result.value)
              = <<MakefileHeaderLine, <<>>>>
                   \o [k \in 1..Len(config.flatConfig) |->
                          ExpectedMakefileLine(config.flatConfig[k].key,
                                               config.flatConfig[k].value)]


\* ------------------------------------------------------------------------
\* C24
\* ------------------------------------------------------------------------

\* the k-th command of the script has the given name and exited non-zero
ExitedNonZero(k, name) ==
    /\ commands[k].name = name
    /\ ~commands[k].outcome.thrown
    /\ commands[k].outcome.code # 0

\* C24: when the linux-stable checkout exists and the shallow fetch
\* (--depth=1) of the requested ref exits non-zero, the script next runs
\* the full fetch of the same ref and, if that succeeds, goes on to the
\* checkout; the failure of the shallow fetch alone does not end the
\* process.
ShallowFetchFallback ==
    \A k \in 1..Len(commands) :
        ExitedNonZero(k, "fetch --depth=1")
            => /\ k = Len(commands)
                    => (step = "fetchFull" /\ exitCode = Running)
               /\ k < Len(commands)
                    => /\ commands[k + 1].name = "fetch"
                       /\ commands[k + 1].ref = commands[k].ref
                       /\ (k + 1 = Len(commands)
                               /\ commands[k + 1].outcome = Exited(0))
                            => step = "checkout"

\* ------------------------------------------------------------------------
\* C25
\* ------------------------------------------------------------------------

\* C25: when apt-get is present and the apt-get install command exits
\* non-zero, the script still goes on to the clone or fetch step and the
\* rest of the build, and does not exit with that code.
InstallFailureIgnored ==
    \A k \in 1..Len(commands) :
        ExitedNonZero(k, "apt-get install")
            => /\ k = Len(commands)
                    => (step = "repository" /\ exitCode = Running)
               /\ k < Len(commands)
                    => commands[k + 1].name
                          \in {"clone --depth=1", "fetch --tags"}

====
